---- MODULE Spec2Model ----
(***************************************************************************)
(* Model of the grade-sheet analyser: the spreadsheet ingestor             *)
(* (parseExcelFile), the multi-file aggregator (processFiles), the         *)
(* application state (App) and the single-slot memoisation of the view     *)
(* functions (memoize).                                                    *)
(*                                                                         *)
(* Conventions                                                             *)
(*  - A text is a sequence of one-character tokens.  The checker's string  *)
(*    syntax is ASCII only, so every Arabic word of the source is written  *)
(*    letter by letter with the transliterated names of its letters        *)
(*    ("alef", "lam", ...) and "e'" stands for the letter e-acute.         *)
(*  - A number is an integer count of hundredths (12.5 is 1250).           *)
(*  - A cell is a record [t, s, v]: t = "absent" (a hole of the sparse     *)
(*    row), "text" (with text s) or "num" (with value v).                  *)
(*  - Row and cell indices of the source are 0-based; sequences here are   *)
(*    1-based, so source row i is rawData[i + 1].                          *)
(***************************************************************************)
EXTENDS Integers, Sequences, FiniteSets, TLC

VARIABLES
  rawData,      \* parseExcelFile: the grid under ingestion
  parsed,       \* parseExcelFile: what the promise settled with (status "pending" before)
  trace,        \* parseExcelFile: the locals headerRowIndex, jsonData and subjects at exit
  heap,         \* the arrays alive in the program: reference -> content
  cache,        \* memoize: per view function, lastArgs and lastResult
  computed,     \* per view function, the number of result objects it has computed
  hist,         \* per view function, its last two calls (history)
  app,          \* App: students, subjects, metadata, optionalSubjects, activeTab
  shown,        \* the view results held by the components on screen
  upload,       \* FileUpload: the mounted instance, uploadMode, error, success
  jobs,         \* the invocations of processFiles, in the order they started
  timers,       \* the pending setTimeout callbacks that deliver a dataset
  xs,           \* statistics: the first number sequence handed to a function
  ys,           \* statistics: the second number sequence (calculateCorrelation)
  stats         \* statistics: the function called last and what it returned

----------------------------------------------------------------------------
(* Generic helpers                                                          *)

Min(a, b) == IF a < b THEN a ELSE b

Max(a, b) == IF a > b THEN a ELSE b

Front(s) == SubSeq(s, 1, Len(s) - 1)

\* Array.prototype.slice(from) / slice(from, to) with 0-based bounds
Slice(s, from, to) == SubSeq(s, Min(from, Len(s)) + 1, Min(Max(to, 0), Len(s)))

SliceFrom(s, from) == Slice(s, from, Len(s))

----------------------------------------------------------------------------
(* Cells and JavaScript coercions                                           *)

Scale == 100

Absent == [t |-> "absent", s |-> <<>>, v |-> 0]

T(chars) == [t |-> "text", s |-> chars, v |-> 0]

\* a number cell holding the whole number n
N(n) == [t |-> "num", s |-> <<>>, v |-> n * Scale]

\* a number cell holding h hundredths
NH(h) == [t |-> "num", s |-> <<>>, v |-> h]

\* row[i] for a 0-based index: undefined outside the row and in a hole
At(row, i) == IF i >= 0 /\ i < Len(row) THEN row[i + 1] ELSE Absent

\* JavaScript truthiness of a cell value: undefined, "" and 0 are falsy
Truthy(c) == \/ c.t = "text" /\ c.s # <<>>
             \/ c.t = "num" /\ c.v # 0

DigitChars == <<"0", "1", "2", "3", "4", "5", "6", "7", "8", "9">>

RECURSIVE Digits(_)
\* decimal digits of a natural number
Digits(n) == IF n < 10 THEN <<DigitChars[n + 1]>>
             ELSE Digits(n \div 10) \o <<DigitChars[(n % 10) + 1]>>

\* String(x) of a number given in hundredths: 1200 -> "12", 950 -> "9.5"
NumToText(h) ==
  LET a    == IF h < 0 THEN -h ELSE h
      int  == a \div Scale
      frac == a % Scale
      sign == IF h < 0 THEN <<"-">> ELSE <<>>
      fr   == IF frac = 0 THEN <<>>
              ELSE IF frac % 10 = 0 THEN <<".", DigitChars[(frac \div 10) + 1]>>
              ELSE <<".", DigitChars[(frac \div 10) + 1], DigitChars[(frac % 10) + 1]>>
  IN  sign \o Digits(int) \o fr

\* the string a cell contributes to Array.prototype.join / String()
ToStr(c) == IF c.t = "text" THEN c.s
            ELSE IF c.t = "num" THEN NumToText(c.v)
            ELSE <<>>

RECURSIVE Join(_, _)
\* Array.prototype.join over a sequence of texts
Join(texts, sep) ==
  IF Len(texts) = 0 THEN <<>>
  ELSE IF Len(texts) = 1 THEN texts[1]
  ELSE texts[1] \o sep \o Join(Tail(texts), sep)

JoinCells(cells, sep) == Join([i \in 1..Len(cells) |-> ToStr(cells[i])], sep)

LowerOf == ("N" :> "n") @@ ("O" :> "o") @@ ("M" :> "m") @@ ("P" :> "p") @@
           ("R" :> "r") @@ ("E" :> "e")

\* String.prototype.toLowerCase, on the letters the model's inputs use
ToLowerCase(s) ==
  [i \in 1..Len(s) |-> IF s[i] \in DOMAIN LowerOf THEN LowerOf[s[i]] ELSE s[i]]

\* String.prototype.includes
Includes(hay, needle) ==
  \E i \in 1..(Len(hay) - Len(needle) + 1) :
      SubSeq(hay, i, i + Len(needle) - 1) = needle

IsSpace(ch) == ch = " "

RECURSIVE TrimLeft(_)
TrimLeft(s) == IF Len(s) > 0 /\ IsSpace(s[1]) THEN TrimLeft(Tail(s)) ELSE s

RECURSIVE TrimRight(_)
TrimRight(s) == IF Len(s) > 0 /\ IsSpace(s[Len(s)]) THEN TrimRight(Front(s)) ELSE s

\* String.prototype.trim
Trim(s) == TrimRight(TrimLeft(s))

RECURSIVE CollapseSpaces(_)
\* replace(/\s+/g, ' ')
CollapseSpaces(s) ==
  IF Len(s) = 0 THEN <<>>
  ELSE IF IsSpace(s[1])
       THEN <<" ">> \o CollapseSpaces(TrimLeft(s))
       ELSE <<s[1]>> \o CollapseSpaces(Tail(s))

RECURSIVE SplitSpace(_, _)
\* split(' '): cur is the word being read
SplitSpace(s, cur) ==
  IF Len(s) = 0 THEN <<cur>>
  ELSE IF s[1] = " " THEN <<cur>> \o SplitSpace(Tail(s), <<>>)
  ELSE SplitSpace(Tail(s), cur \o <<s[1]>>)

Split(s) == SplitSpace(s, <<>>)

----------------------------------------------------------------------------
(* Numeric coercion of a cell: parseFloat(val.replace(',', '.'))            *)

\* JavaScript Infinity and -Infinity, outside the range of every finite value
PosInfinity == 1000000000

NegInfinity == -1000000000

IsFinite(v) == v # PosInfinity /\ v # NegInfinity

IsDigit(ch) == \E d \in 1..10 : DigitChars[d] = ch

DigitVal(ch) == (CHOOSE d \in 1..10 : DigitChars[d] = ch) - 1

RECURSIVE ReplaceFirstComma(_)
\* String.prototype.replace(',', '.'): only the first comma is replaced
ReplaceFirstComma(s) ==
  IF Len(s) = 0 THEN <<>>
  ELSE IF s[1] = "," THEN <<".">> \o Tail(s)
  ELSE <<s[1]>> \o ReplaceFirstComma(Tail(s))

RECURSIVE DigitRun(_)
\* the longest prefix of s made of digits
DigitRun(s) == IF Len(s) > 0 /\ IsDigit(s[1]) THEN <<s[1]>> \o DigitRun(Tail(s)) ELSE <<>>

RECURSIVE DigitsValue(_, _)
DigitsValue(ds, acc) ==
  IF Len(ds) = 0 THEN acc ELSE DigitsValue(Tail(ds), acc * 10 + DigitVal(ds[1]))

InfinityText == <<"I", "n", "f", "i", "n", "i", "t", "y">>

NaN == [k |-> "nan", v |-> 0]

\* parseFloat: leading white space, sign, "Infinity" or the longest decimal
\* prefix; NaN when no prefix is a number.  Values keep two fraction digits
\* and exponents are not read (no input of the model carries either).
ParseFloat(s) ==
  LET t0    == TrimLeft(s)
      neg   == Len(t0) > 0 /\ t0[1] = "-"
      t1    == IF Len(t0) > 0 /\ t0[1] \in {"+", "-"} THEN Tail(t0) ELSE t0
      ip    == DigitRun(t1)
      t2    == SliceFrom(t1, Len(ip))
      fp    == IF Len(t2) > 0 /\ t2[1] = "." THEN DigitRun(Tail(t2)) ELSE <<>>
      f1    == IF Len(fp) >= 1 THEN DigitVal(fp[1]) ELSE 0
      f2    == IF Len(fp) >= 2 THEN DigitVal(fp[2]) ELSE 0
      mag   == DigitsValue(ip, 0) * Scale + f1 * 10 + f2
  IN  IF Slice(t1, 0, Len(InfinityText)) = InfinityText
      THEN [k |-> "num", v |-> IF neg THEN NegInfinity ELSE PosInfinity]
      ELSE IF Len(ip) = 0 /\ Len(fp) = 0 THEN NaN
      ELSE [k |-> "num", v |-> IF neg THEN -mag ELSE mag]

\* let numVal = val; if (typeof val === 'string') numVal = parseFloat(...);
\* the value is usable when typeof numVal === 'number' && !isNaN(numVal)
Coerce(val) ==
  IF val.t = "text" THEN ParseFloat(ReplaceFirstComma(val.s))
  ELSE IF val.t = "num" THEN [k |-> "num", v |-> val.v]
  ELSE NaN

----------------------------------------------------------------------------
(* parseExcelFile: literals                                                 *)

\* "al-ism" (the name), "al-laqab" (the surname), 'nom', 'pre'nom'
NameKeywords == { <<"alef", "lam", "alef", "seen", "meem">>,
                  <<"alef", "lam", "lam", "qaf", "beh">>,
                  <<"n", "o", "m">>,
                  <<"p", "r", "e'", "n", "o", "m">> }

\* the literal "yes" of the repeater column ("na'am")
YesMarker == <<"noon", "ain", "meem">>

\* the default gender label ("ghayr muhaddad", unspecified)
GenderUnspecified == <<"ghain", "yeh", "reh", " ", "meem", "hah", "dal", "dal">>

\* the three ingestion error messages, transliterated
ErrEmptyInput == "al-milaff farigh."

ErrInsufficientData == "al-milaff la yahtawi 'ala bayanat kafiya."

ErrUnsupportedHeader == "tansiq al-milaff ghayr mad'um."

ErrReadFailure == "Failed to read file"

HeaderScanRows == 20

HeaderScanCells == 10

FallbackHeaderRow == 5

MinHeaderCells == 3

FirstGradeColumn == 5

MinMetadataWords == 7

EmptyText == <<>>

EmptyMetadata ==
  [semester |-> EmptyText, schoolYear |-> EmptyText, className |-> EmptyText,
   level |-> EmptyText, stream |-> EmptyText, classNumber |-> EmptyText,
   directorate |-> EmptyText, schoolName |-> EmptyText, isAggregated |-> "undefined"]

----------------------------------------------------------------------------
(* parseExcelFile: metadata extraction                                      *)

\* words[i] || '' for a 0-based index
WordAt(words, i) == IF i >= 0 /\ i < Len(words) THEN words[i + 1] ELSE EmptyText

\* row.join(' ').replace(/\s+/g, ' ').trim()
RowLine(row) == Trim(CollapseSpaces(JoinCells(row, <<" ">>)))

\* the falsy cells of row5 kept
MetadataWordsOfAllCells(row5) == Split(Trim(CollapseSpaces(JoinCells(row5, <<" ">>))))

\* row5.filter(c => c).join(' ').replace(/\s+/g, ' ').trim().split(' ')
MetadataWords(row5) ==
  Split(Trim(CollapseSpaces(JoinCells(SelectSeq(row5, Truthy), <<" ">>))))

ExtractMetadata(grid) ==
  LET directorate == IF Len(grid) > 2 THEN RowLine(grid[3]) ELSE EmptyText
      schoolName  == IF Len(grid) > 3 THEN RowLine(grid[4]) ELSE EmptyText
      words       == IF Len(grid) > 4 THEN MetadataWords(grid[5]) ELSE <<>>
      level       == Trim(WordAt(words, 5) \o <<" ">> \o WordAt(words, 6))
      classNum    == WordAt(words, Len(words) - 1)
      stream      == IF Len(words) > 8
                     THEN Trim(Join(Slice(words, 7, Len(words) - 1), <<" ">>))
                     ELSE EmptyText
  IN  IF Len(words) >= MinMetadataWords
      THEN [semester     |-> Trim(WordAt(words, 2) \o <<" ">> \o WordAt(words, 3)),
            schoolYear   |-> Trim(WordAt(words, 4)),
            className    |-> Trim(CollapseSpaces(level \o <<" ">> \o stream \o <<" ">> \o classNum)),
            level        |-> level,
            stream       |-> stream,
            classNumber  |-> classNum,
            directorate  |-> directorate,
            schoolName   |-> schoolName,
            isAggregated |-> "undefined"]
      ELSE [EmptyMetadata EXCEPT !.directorate = directorate, !.schoolName = schoolName]

----------------------------------------------------------------------------
(* parseExcelFile: header detection and trailing-row pruning                *)

\* row.slice(0, 10).join(' ').toLowerCase()
RowString(row) == ToLowerCase(JoinCells(Slice(row, 0, HeaderScanCells), <<" ">>))

RowHasKeyword(row) == \E kw \in NameKeywords : Includes(RowString(row), kw)

RECURSIVE ScanHeaderNoBreak(_, _)
\* the loop without its break: the last matching row wins
ScanHeaderNoBreak(grid, i) ==
  IF i >= Min(Len(grid), HeaderScanRows) THEN -1
  ELSE LET later == ScanHeaderNoBreak(grid, i + 1)
       IN  IF later # -1 THEN later
           ELSE IF RowHasKeyword(grid[i + 1]) THEN i ELSE -1

RECURSIVE ScanHeader(_, _)
\* the for loop with break: the first matching row at or after i, -1 if none
ScanHeader(grid, i) ==
  IF i >= Min(Len(grid), HeaderScanRows) THEN -1
  ELSE IF RowHasKeyword(grid[i + 1]) THEN i
  ELSE ScanHeader(grid, i + 1)

\* the fallback to row 5 taken whenever the grid has a row 5
HeaderRowIndexOfAnyRow5(grid) ==
  LET found == ScanHeader(grid, 0)
  IN  IF found # -1 THEN found
      ELSE IF Len(grid) > FallbackHeaderRow THEN FallbackHeaderRow ELSE 0

HeaderRowIndex(grid) ==
  LET found == ScanHeader(grid, 0)
  IN  IF found # -1 THEN found
      ELSE IF Len(grid) > FallbackHeaderRow
              /\ \E k \in 1..Len(grid[FallbackHeaderRow + 1]) :
                     grid[FallbackHeaderRow + 1][k].t = "text"
           THEN FallbackHeaderRow
           ELSE 0

\* row.every(cell => !cell)
RowIsEmpty(row) == \A k \in 1..Len(row) : ~Truthy(row[k])

RECURSIVE PopEmptyRows(_)
\* while (jsonData.length > 0 && last row is empty) jsonData.pop()
PopEmptyRows(rows) ==
  IF Len(rows) > 0 /\ RowIsEmpty(rows[Len(rows)]) THEN PopEmptyRows(Front(rows)) ELSE rows

\* the summary row removed only when its name cell is empty
PopSummaryRowIfNameless(rows) ==
  IF Len(rows) > 1 /\ ~Truthy(At(rows[Len(rows)], 1)) THEN Front(rows) ELSE rows

\* if (jsonData.length > 1) jsonData.pop()  (both branches of the inner if pop)
PopSummaryRow(rows) == IF Len(rows) > 1 THEN Front(rows) ELSE rows

PruneRows(grid, headerRowIndex) ==
  PopSummaryRow(PopEmptyRows(SliceFrom(grid, headerRowIndex)))

----------------------------------------------------------------------------
(* parseExcelFile: subjects and student records                             *)

\* headerRow.slice(5).slice(0, -1) when the header row has more than 5 cells
SubjectColumns(headerRow) ==
  IF Len(headerRow) > FirstGradeColumn
  THEN Front(SliceFrom(headerRow, FirstGradeColumn))
  ELSE <<>>

NoGrades == [k \in {} |-> 0]

RECURSIVE GradesFrom(_, _, _, _)
\* subjects.forEach((subj, i) => ...): holes of the subject array are
\* skipped, a later column of the same name overwrites an earlier one
GradesFrom(subjects, gradesData, i, acc) ==
  IF i >= Len(subjects) THEN acc
  ELSE LET subj   == subjects[i + 1]
           numVal == Coerce(At(gradesData, i))
           key    == ToStr(subj)
       IN  IF subj.t # "absent" /\ numVal.k = "num"
           THEN GradesFrom(subjects, gradesData, i + 1,
                           [k \in (DOMAIN acc) \cup {key} |->
                               IF k = key THEN numVal.v ELSE acc[k]])
           ELSE GradesFrom(subjects, gradesData, i + 1, acc)

SemesterAverageOf(gradesData) ==
  IF Len(gradesData) > 0
  THEN LET numAvg == Coerce(gradesData[Len(gradesData)])
       IN  IF numAvg.k = "num" THEN numAvg.v ELSE 0
  ELSE 0

TempId(index) == <<"t", "e", "m", "p", "-">> \o Digits(index)

StudentOfRow(row, index, subjects, classNumber) ==
  LET gradesData == SliceFrom(row, FirstGradeColumn)
  IN  [id              |-> TempId(index),
       name            |-> At(row, 1),
       gender          |-> IF Truthy(At(row, 3)) THEN At(row, 3) ELSE T(GenderUnspecified),
       grades          |-> GradesFrom(subjects, gradesData, 0, NoGrades),
       semesterAverage |-> SemesterAverageOf(gradesData),
       originalRow     |-> row,
       isRepeater      |-> Truthy(At(row, 4)) /\ Trim(ToStr(At(row, 4))) = YesMarker,
       sourceClass     |-> classNumber]

RECURSIVE BuildStudentsOfAllRows(_, _, _, _)
\* the rows without a name kept as students
BuildStudentsOfAllRows(rows, index, subjects, classNumber) ==
  IF Len(rows) = 0 THEN <<>>
  ELSE <<StudentOfRow(rows[1], index, subjects, classNumber)>>
       \o BuildStudentsOfAllRows(Tail(rows), index + 1, subjects, classNumber)

RECURSIVE BuildStudents(_, _, _, _)
\* jsonData.slice(1).map(...).filter(s => s !== null): a row without a name
\* gives no student
BuildStudents(rows, index, subjects, classNumber) ==
  IF Len(rows) = 0 THEN <<>>
  ELSE (IF Truthy(At(rows[1], 1))
        THEN <<StudentOfRow(rows[1], index, subjects, classNumber)>>
        ELSE <<>>)
       \o BuildStudents(Tail(rows), index + 1, subjects, classNumber)

\* a stored grade of 0 counted as a grade
SubjectIsActiveFromZero(students, subject) ==
  \E k \in 1..Len(students) :
      /\ subject \in DOMAIN students[k].grades
      /\ students[k].grades[subject] >= 0

\* students.some(s => typeof s.grades[subject] === 'number' && grade > 0)
SubjectIsActive(students, subject) ==
  \E k \in 1..Len(students) :
      /\ subject \in DOMAIN students[k].grades
      /\ students[k].grades[subject] > 0

\* subjects.filter(...): holes are skipped, order is kept
ActiveSubjects(subjects, students) ==
  LET kept(c) == c.t # "absent" /\ SubjectIsActive(students, ToStr(c))
      cells   == SelectSeq(subjects, kept)
  IN  [i \in 1..Len(cells) |-> ToStr(cells[i])]

\* the header check off by one
HeaderIsUnsupportedBelowTwo(headerRow) == Len(headerRow) < MinHeaderCells - 1

\* !headerRow || headerRow.length < 3
HeaderIsUnsupported(headerRow) == Len(headerRow) < MinHeaderCells

Rejected(message) ==
  [status |-> "rejected", error |-> message, students |-> <<>>, subjects |-> <<>>,
   metadata |-> EmptyMetadata]

Resolved(students, subjects, metadata) ==
  [status |-> "resolved", error |-> "", students |-> students, subjects |-> subjects,
   metadata |-> metadata]

\* the body of reader.onload: the value the promise settles with
ParseExcelFile(grid) ==
  IF Len(grid) = 0 THEN Rejected(ErrEmptyInput)
  ELSE
    LET metadata       == ExtractMetadata(grid)
        headerRowIndex == HeaderRowIndex(grid)
        jsonData       == PruneRows(grid, headerRowIndex)
    IN  IF Len(jsonData) < 1 THEN Rejected(ErrInsufficientData)
        ELSE IF HeaderIsUnsupported(jsonData[1]) THEN Rejected(ErrUnsupportedHeader)
        ELSE LET subjects == SubjectColumns(jsonData[1])
                 students == BuildStudents(Tail(jsonData), 0, subjects, metadata.classNumber)
             IN  Resolved(students, ActiveSubjects(subjects, students), metadata)

----------------------------------------------------------------------------
(* statistics.ts.  Results are exact fractions [num, den] in lowest terms   *)
(* (floating-point rounding is not modelled); a standard deviation is kept  *)
(* as the variance under its square root.                                   *)

RECURSIVE Gcd(_, _)
Gcd(a, b) == IF b = 0 THEN a ELSE Gcd(b, a % b)

Abs(a) == IF a < 0 THEN -a ELSE a

\* the fraction n / d, d > 0, in lowest terms
Frac(n, d) ==
  LET g == Gcd(Abs(n), d)
  IN  IF n = 0 THEN [num |-> 0, den |-> 1] ELSE [num |-> n \div g, den |-> d \div g]

Zero == [num |-> 0, den |-> 1]

FracLess(a, b) == a.num * b.den < b.num * a.den

RECURSIVE Sum(_)
Sum(data) == IF Len(data) = 0 THEN 0 ELSE data[1] + Sum(Tail(data))

RECURSIVE SumSquares(_)
SumSquares(data) == IF Len(data) = 0 THEN 0 ELSE data[1] * data[1] + SumSquares(Tail(data))

\* data.filter(pred).length
Count(data, pred(_)) == Cardinality({i \in 1..Len(data) : pred(data[i])})

calculateAverage(data) ==
  IF Len(data) = 0 THEN Zero ELSE Frac(Sum(data), Len(data))

PassThreshold == 10

calculatePassPercentage(data, threshold) ==
  IF Len(data) = 0 THEN Zero
  ELSE LET passes(g) == g >= threshold * Scale
       IN  Frac(Count(data, passes) * 100, Len(data))

\* Math.sqrt(variance), variance = sum((x - mean)^2) / n = (n*sum(x^2) - sum(x)^2) / n^2
calculateStandardDeviation(data) ==
  IF Len(data) = 0 THEN [sqrtOf |-> Zero]
  ELSE [sqrtOf |-> Frac(Len(data) * SumSquares(data) - Sum(data) * Sum(data),
                        Len(data) * Len(data))]

RECURSIVE ModeScan(_, _, _, _)
\* data.forEach: frequency counts so far, the best count and its value
ModeScan(data, frequency, maxFreq, mode) ==
  IF Len(data) = 0 THEN mode
  ELSE LET val == data[1]
           n   == (IF val \in DOMAIN frequency THEN frequency[val] ELSE 0) + 1
           fr  == [k \in (DOMAIN frequency) \cup {val} |-> IF k = val THEN n ELSE frequency[k]]
       IN  IF n > maxFreq THEN ModeScan(Tail(data), fr, n, val)
           ELSE ModeScan(Tail(data), fr, maxFreq, mode)

calculateMode(data) ==
  IF Len(data) = 0 THEN 0 ELSE ModeScan(data, [k \in {} |-> 0], 0, data[1])

\* (stdDev / average) * 100, kept as its two operands
calculateCV(average, stdDev) ==
  IF average = Zero THEN [cvZero |-> TRUE, stdDev |-> [sqrtOf |-> Zero], average |-> Zero]
  ELSE [cvZero |-> FALSE, stdDev |-> stdDev, average |-> average]

----------------------------------------------------------------------------
(* Unsigned integers of any size, for the arithmetic of JavaScript numbers: *)
(* a sequence of digits in base 2^15, lowest digit first, no highest digit  *)
(* 0 (the empty sequence is 0).                                             *)

Base == 32768

DigitBits == 15

RECURSIVE BTrim(_)
BTrim(a) == IF Len(a) > 0 /\ a[Len(a)] = 0 THEN BTrim(Front(a)) ELSE a

RECURSIVE BFromInt(_)
BFromInt(n) == IF n = 0 THEN <<>> ELSE <<n % Base>> \o BFromInt(n \div Base)

RECURSIVE Pow2(_)
Pow2(k) == IF k = 0 THEN 1 ELSE 2 * Pow2(k - 1)

RECURSIVE BAddC(_, _, _)
BAddC(a, b, c) ==
  IF Len(a) = 0 /\ Len(b) = 0 THEN (IF c = 0 THEN <<>> ELSE <<c>>)
  ELSE LET t == (IF Len(a) > 0 THEN a[1] ELSE 0) + (IF Len(b) > 0 THEN b[1] ELSE 0) + c
       IN  <<t % Base>> \o BAddC(SliceFrom(a, 1), SliceFrom(b, 1), t \div Base)

BAdd(a, b) == BAddC(a, b, 0)

RECURSIVE BSubB(_, _, _)
BSubB(a, b, borrow) ==
  IF Len(a) = 0 THEN <<>>
  ELSE LET t == a[1] - (IF Len(b) > 0 THEN b[1] ELSE 0) - borrow
       IN  <<IF t < 0 THEN t + Base ELSE t>>
           \o BSubB(Tail(a), SliceFrom(b, 1), IF t < 0 THEN 1 ELSE 0)

\* a - b for a >= b
BSub(a, b) == BTrim(BSubB(a, b, 0))

RECURSIVE BCmpTop(_, _, _)
BCmpTop(a, b, i) ==
  IF i = 0 THEN 0
  ELSE IF a[i] # b[i] THEN (IF a[i] < b[i] THEN -1 ELSE 1)
  ELSE BCmpTop(a, b, i - 1)

\* -1, 0 or 1 as a is below, equal to or above b
BCmp(a, b) ==
  IF Len(a) # Len(b) THEN (IF Len(a) < Len(b) THEN -1 ELSE 1) ELSE BCmpTop(a, b, Len(a))

RECURSIVE BMulSmallC(_, _, _)
BMulSmallC(a, k, c) ==
  IF Len(a) = 0 THEN (IF c = 0 THEN <<>> ELSE <<c>>)
  ELSE LET t == a[1] * k + c
       IN  <<t % Base>> \o BMulSmallC(Tail(a), k, t \div Base)

\* a * k for 0 <= k < Base
BMulSmall(a, k) == IF k = 0 THEN <<>> ELSE BMulSmallC(a, k, 0)

BShiftDigits(a, n) == IF Len(a) = 0 THEN <<>> ELSE [i \in 1..n |-> 0] \o a

RECURSIVE BMul(_, _)
BMul(a, b) ==
  IF Len(b) = 0 THEN <<>>
  ELSE BAdd(BMulSmall(a, b[1]), BShiftDigits(BMul(a, Tail(b)), 1))

RECURSIVE BDivSmall(_, _)
\* quotient (highest digit possibly 0) and remainder of a by k, 0 < k <= Base
BDivSmall(a, k) ==
  IF Len(a) = 0 THEN [q |-> <<>>, r |-> 0]
  ELSE LET hi  == BDivSmall(Tail(a), k)
           cur == hi.r * Base + a[1]
       IN  [q |-> <<cur \div k>> \o hi.q, r |-> cur % k]

\* a * 2^bits
BShl(a, bits) == BShiftDigits(BMulSmall(a, Pow2(bits % DigitBits)), bits \div DigitBits)

\* floor(a / 2^bits)
BShr(a, bits) == BTrim(BDivSmall(SliceFrom(a, bits \div DigitBits), Pow2(bits % DigitBits)).q)

RECURSIVE BitLenSmall(_)
BitLenSmall(d) == IF d = 0 THEN 0 ELSE 1 + BitLenSmall(d \div 2)

BBitLen(a) == IF Len(a) = 0 THEN 0 ELSE DigitBits * (Len(a) - 1) + BitLenSmall(a[Len(a)])

BIsOdd(a) == Len(a) > 0 /\ a[1] % 2 = 1

RECURSIVE BDivModBits(_, _, _, _, _)
\* long division by d over the bits i down to 0 of the digit dg of the
\* dividend, from the quotient q and the remainder r of the digits above
BDivModBits(dg, d, i, q, r) ==
  IF i < 0 THEN [q |-> q, r |-> r]
  ELSE LET r2   == BAdd(BAdd(r, r), BFromInt((dg \div Pow2(i)) % 2))
           step == IF BCmp(r2, d) >= 0
                   THEN [q |-> BAdd(BAdd(q, q), <<1>>), r |-> BSub(r2, d)]
                   ELSE [q |-> BAdd(q, q), r |-> r2]
       IN  CHOOSE res \in {BDivModBits(dg, d, i - 1, st.q, st.r) : st \in {step}} : TRUE

RECURSIVE BDivMod(_, _)
\* quotient and remainder of n by d, d > 0
BDivMod(n, d) ==
  IF Len(n) = 0 THEN [q |-> <<>>, r |-> <<>>]
  ELSE CHOOSE res \in {BDivModBits(n[1], d, DigitBits - 1, hi.q, hi.r) :
                          hi \in {BDivMod(Tail(n), d)}} : TRUE

RECURSIVE BSqrtBits(_, _, _, _)
\* the integer square root of n, one bit of the root at a time over the bits
\* i down to low, from the bits of the root above i
BSqrtBits(n, i, low, root) ==
  IF i < low THEN root
  ELSE LET cand == BAdd(root, BShl(<<1>>, i))
           step == IF BCmp(BMul(cand, cand), n) <= 0 THEN cand ELSE root
       IN  CHOOSE res \in {BSqrtBits(n, i - 1, low, st) : st \in {step}} : TRUE

RECURSIVE BSqrtScan(_, _, _)
\* the bits i down to 0 of the root, DigitBits of them at a time
BSqrtScan(n, i, root) ==
  IF i < 0 THEN root
  ELSE LET low == IF i >= DigitBits THEN i - DigitBits + 1 ELSE 0
       IN  CHOOSE res \in {BSqrtScan(n, low - 1, st) : st \in {BSqrtBits(n, i, low, root)}} : TRUE

BSqrt(n) == BSqrtScan(n, (BBitLen(n) + 1) \div 2, <<>>)

----------------------------------------------------------------------------
(* JavaScript numbers as IEEE 754 binary64 values: sign * m * 2^e with m an *)
(* unsigned integer of exactly 53 bits, or 0.  Every operation rounds its   *)
(* exact result to the nearest such value, ties to the even m.  Subnormal   *)
(* and infinite results are not modelled (no value of the model comes near  *)
(* either range), and -0 is not told from 0 (=== does not tell them apart). *)

Precision == 53

FZero == [sign |-> 0, m |-> <<>>, e |-> 0]

\* the value nearest to sign * (m + s) * 2^e, where 0 < s < 1 if sticky and
\* s = 0 otherwise; m has at least 55 bits when sticky
FRound(sign, m, e, sticky) ==
  LET len == BBitLen(m)
  IN  IF len = 0 THEN FZero
      ELSE IF len <= Precision
      THEN [sign |-> sign, m |-> BShl(m, Precision - len), e |-> e - (Precision - len)]
      ELSE LET n    == len - Precision
               q    == BShr(m, n)
               rem  == BSub(m, BShl(q, n))
               c    == BCmp(rem, BShl(<<1>>, n - 1))
               up   == c > 0 \/ (c = 0 /\ (sticky \/ BIsOdd(q)))
               q2   == IF up THEN BAdd(q, <<1>>) ELSE q
           IN  IF BBitLen(q2) > Precision
               THEN [sign |-> sign, m |-> BShr(q2, 1), e |-> e + n + 1]
               ELSE [sign |-> sign, m |-> q2, e |-> e + n]

\* an integer as a number
FFromInt(n) ==
  IF n = 0 THEN FZero
  ELSE FRound(IF n < 0 THEN -1 ELSE 1, BFromInt(IF n < 0 THEN -n ELSE n), 0, FALSE)

FNeg(a) == [a EXCEPT !.sign = -@]

\* a + b
FAdd(a, b) ==
  IF a.sign = 0 THEN b
  ELSE IF b.sign = 0 THEN a
  ELSE LET e0 == Min(a.e, b.e)
           ma == BShl(a.m, a.e - e0)
           mb == BShl(b.m, b.e - e0)
           c  == BCmp(ma, mb)
       IN  IF a.sign = b.sign THEN FRound(a.sign, BAdd(ma, mb), e0, FALSE)
           ELSE IF c = 0 THEN FZero
           ELSE IF c > 0 THEN FRound(a.sign, BSub(ma, mb), e0, FALSE)
           ELSE FRound(b.sign, BSub(mb, ma), e0, FALSE)

\* a - b
FSub(a, b) == FAdd(a, FNeg(b))

\* a * b
FMul(a, b) ==
  IF a.sign = 0 \/ b.sign = 0 THEN FZero
  ELSE FRound(a.sign * b.sign, BMul(a.m, b.m), a.e + b.e, FALSE)

\* a / b for b other than 0
FDiv(a, b) ==
  IF a.sign = 0 THEN FZero
  ELSE LET d == BDivMod(BShl(a.m, Precision + 3), b.m)
       IN  FRound(a.sign * b.sign, d.q, a.e - b.e - (Precision + 3), Len(d.r) > 0)

\* Math.sqrt(a) for a >= 0
FSqrt(a) ==
  IF a.sign = 0 THEN FZero
  ELSE LET k    == Precision + 4 + ((a.e + Precision + 4) % 2)
           n    == BShl(a.m, k)
           root == BSqrt(n)
       IN  FRound(1, root, (a.e - k) \div 2, BCmp(BMul(root, root), n) # 0)

\* a >= b
FAtLeast(a, b) == FSub(a, b).sign >= 0

\* the number a decimal text with two fraction digits reads as: h hundredths
FHundredths(h) == FDiv(FFromInt(h), FFromInt(Scale))

----------------------------------------------------------------------------
(* statistics.ts on JavaScript numbers (binary64)                           *)

RECURSIVE FSumFrom(_, _)
\* data.reduce((sum, value) => sum + value, acc)
FSumFrom(data, acc) ==
  IF Len(data) = 0 THEN acc ELSE FSumFrom(Tail(data), FAdd(acc, data[1]))

RECURSIVE FSquaresFrom(_, _, _)
\* data.reduce((acc, val) => acc + Math.pow(val - average, 2), acc); the
\* square is the product of the difference with itself, rounded once
FSquaresFrom(data, average, acc) ==
  IF Len(data) = 0 THEN acc
  ELSE FSquaresFrom(Tail(data), average,
                    FAdd(acc, FMul(FSub(data[1], average), FSub(data[1], average))))

RECURSIVE FProductsFrom(_, _, _, _, _)
\* x.reduce((sum, xi, i) => sum + (xi - xBar) * (y[i] - yBar), acc)
FProductsFrom(x, y, xBar, yBar, acc) ==
  IF Len(x) = 0 THEN acc
  ELSE FProductsFrom(Tail(x), Tail(y), xBar, yBar,
                     FAdd(acc, FMul(FSub(x[1], xBar), FSub(y[1], yBar))))

calculateAverage64(data) ==
  IF Len(data) = 0 THEN FZero ELSE FDiv(FSumFrom(data, FZero), FFromInt(Len(data)))

calculatePassPercentage64(data, threshold) ==
  IF Len(data) = 0 THEN FZero
  ELSE LET passes(g) == FAtLeast(g, FFromInt(threshold))
       IN  FMul(FDiv(FFromInt(Count(data, passes)), FFromInt(Len(data))), FFromInt(100))

calculateStandardDeviation64(data) ==
  IF Len(data) = 0 THEN FZero
  ELSE LET average  == calculateAverage64(data)
           variance == FDiv(FSquaresFrom(data, average, FZero), FFromInt(Len(data)))
       IN  FSqrt(variance)

\* not calculateMode: the first value to appear
calculateModeFirstSeen(data) == IF Len(data) = 0 THEN FZero ELSE data[1]

calculateMode64(data) ==
  IF Len(data) = 0 THEN FZero ELSE ModeScan(data, [k \in {} |-> 0], 0, data[1])

calculateCV64(average, stdDev) ==
  IF average = FZero THEN FZero ELSE FMul(FDiv(stdDev, average), FFromInt(100))

\* the quotient taken by denominatorX alone
calculateCorrelationByX(x, y) ==
  IF Len(x) # Len(y) \/ Len(x) = 0 THEN FZero
  ELSE LET xBar         == calculateAverage64(x)
           yBar         == calculateAverage64(y)
           numerator    == FProductsFrom(x, y, xBar, yBar, FZero)
           denominatorX == FSqrt(FSquaresFrom(x, xBar, FZero))
           denominatorY == FSqrt(FSquaresFrom(y, yBar, FZero))
       IN  IF denominatorX = FZero \/ denominatorY = FZero THEN FZero
           ELSE FDiv(numerator, FMul(denominatorX, denominatorX))

calculateCorrelation(x, y) ==
  IF Len(x) # Len(y) \/ Len(x) = 0 THEN FZero
  ELSE LET xBar         == calculateAverage64(x)
           yBar         == calculateAverage64(y)
           numerator    == FProductsFrom(x, y, xBar, yBar, FZero)
           denominatorX == FSqrt(FSquaresFrom(x, xBar, FZero))
           denominatorY == FSqrt(FSquaresFrom(y, yBar, FZero))
       IN  IF denominatorX = FZero \/ denominatorY = FZero THEN FZero
           ELSE FDiv(numerator, FMul(denominatorX, denominatorY))

----------------------------------------------------------------------------
(* dataProcessing.ts: the seven view computations                           *)

\* the gender labels "untha" (female) and "dhakar" (male)
FemaleLabel == <<"alef-hamza", "noon", "theh", "alef-maksura">>

MaleLabel == <<"thal", "kaf", "reh">>

Map(seq, f(_)) == [i \in 1..Len(seq) |-> f(seq[i])]

\* the list without its filter, a missing grade read as 0
GradesInZeroForMissing(students, subject) ==
  LET val(s) == IF subject \in DOMAIN s.grades THEN s.grades[subject] ELSE 0
  IN  Map(students, val)

\* students.map(s => s.grades[subject]).filter(g => typeof g === 'number')
GradesIn(students, subject) ==
  LET has(s) == subject \in DOMAIN s.grades
      val(s) == s.grades[subject]
  IN  Map(SelectSeq(students, has), val)

SemesterAverages(students) ==
  LET avg(s) == s.semesterAverage IN Map(students, avg)

\* countAbove10 taken strictly above 10
BucketsStrictlyAbove10(grades) ==
  LET above15(g) == g >= 15 * Scale
      mid(g)     == g >= 10 * Scale /\ g < 15 * Scale
      low(g)     == g >= 8 * Scale /\ g < 10 * Scale
      below8(g)  == g < 8 * Scale
      above10(g) == g > 10 * Scale
  IN  [countAbove15 |-> Count(grades, above15), count10to14 |-> Count(grades, mid),
       count8to9 |-> Count(grades, low), countBelow8 |-> Count(grades, below8),
       countAbove10 |-> Count(grades, above10)]

Buckets(grades) ==
  LET above15(g) == g >= 15 * Scale
      mid(g)     == g >= 10 * Scale /\ g < 15 * Scale
      low(g)     == g >= 8 * Scale /\ g < 10 * Scale
      below8(g)  == g < 8 * Scale
      above10(g) == g >= 10 * Scale
  IN  [countAbove15 |-> Count(grades, above15), count10to14 |-> Count(grades, mid),
       count8to9 |-> Count(grades, low), countBelow8 |-> Count(grades, below8),
       countAbove10 |-> Count(grades, above10)]

getSubjectAnalysis(students, subjects) ==
  LET globalAverage == calculateAverage(SemesterAverages(students))
      stat(subject) ==
        LET grades  == GradesIn(students, subject)
            average == calculateAverage(grades)
            stdDev  == calculateStandardDeviation(grades)
        IN  [subject |-> subject, average |-> average,
             passPercentage |-> calculatePassPercentage(grades, PassThreshold),
             stdDev |-> stdDev, cv |-> calculateCV(average, stdDev),
             mode |-> calculateMode(grades), buckets |-> Buckets(grades),
             comparison |-> IF FracLess(globalAverage, average) THEN "above"
                            ELSE IF FracLess(average, globalAverage) THEN "below"
                            ELSE "equal"]
  IN  Map(subjects, stat)

getGlobalSemesterStats(students) ==
  LET semesterAverages == SemesterAverages(students)
      passes(a) == a >= 10 * Scale
  IN  [average |-> calculateAverage(semesterAverages),
       passPercentage |-> calculatePassPercentage(semesterAverages, PassThreshold),
       countAbove10 |-> Count(semesterAverages, passes),
       stdDev |-> calculateStandardDeviation(semesterAverages),
       mode |-> calculateMode(semesterAverages)]

IsLabel(cell, label) == cell.t = "text" /\ cell.s = label

getCategoryGlobalStats(students) ==
  LET female(s)     == IsLabel(s.gender, FemaleLabel)
      passed(s)     == s.semesterAverage >= 10 * Scale
      passedF(s)    == passed(s) /\ female(s)
      passedM(s)    == passed(s) /\ IsLabel(s.gender, MaleLabel)
      totalStudents == Len(students)
      totalFemales  == Count(students, female)
      totalMales    == totalStudents - totalFemales
      rate(n, d)    == IF d # 0 THEN Frac(n * 100, d) ELSE Zero
  IN  [totalStudents |-> totalStudents, totalFemales |-> totalFemales,
       successfulStudents |-> Count(students, passed),
       successfulFemales |-> Count(students, passedF),
       successfulMales |-> Count(students, passedM),
       overallSuccessRate |-> rate(Count(students, passed), totalStudents),
       femaleSuccessRate |-> rate(Count(students, passedF), totalFemales),
       maleSuccessRate |-> rate(Count(students, passedM), totalMales)]

getOptionalSubjectsStats(students, optionalSubjects) ==
  LET stat(subject) ==
        LET grades == GradesIn(students, subject)
        IN  [subject |-> subject, count |-> Len(grades),
             average |-> calculateAverage(grades),
             passPercentage |-> calculatePassPercentage(grades, PassThreshold)]
  IN  Map(optionalSubjects, stat)

getDistributionStats(students, subjects) ==
  LET stat(subject) ==
        LET grades == GradesIn(students, subject)
        IN  [subject |-> subject, average |-> calculateAverage(grades),
             passPercentage |-> calculatePassPercentage(grades, PassThreshold),
             buckets |-> Buckets(grades)]
  IN  Map(subjects, stat)

RECURSIVE MaxOf(_)
MaxOf(data) == IF Len(data) = 1 THEN data[1] ELSE Max(data[1], MaxOf(Tail(data)))

RECURSIVE MinOf(_)
MinOf(data) == IF Len(data) = 1 THEN data[1] ELSE Min(data[1], MinOf(Tail(data)))

getGeneralSubjectSummary(students, subjects) ==
  LET stat(subject) ==
        LET grades == GradesIn(students, subject)
            above15(g) == g >= 15 * Scale
            below10(g) == g < 10 * Scale
        IN  [subject |-> subject, average |-> calculateAverage(grades),
             highest |-> IF Len(grades) > 0 THEN MaxOf(grades) ELSE 0,
             lowest |-> IF Len(grades) > 0 THEN MinOf(grades) ELSE 0,
             countAbove15 |-> Count(grades, above15),
             countBelow10 |-> Count(grades, below10),
             studentCount |-> Len(grades)]
  IN  Map(subjects, stat)

RECURSIVE InsertByAverage(_, _)
\* position of e after every element that does not compare greater (stable)
InsertByAverage(sorted, e) ==
  IF Len(sorted) = 0 THEN <<e>>
  ELSE IF FracLess(e.average, sorted[1].average) THEN <<e>> \o sorted
  ELSE <<sorted[1]>> \o InsertByAverage(Tail(sorted), e)

RECURSIVE SortByAverage(_)
\* Array.prototype.sort((a, b) => a.average - b.average), a stable sort
SortByAverage(list) ==
  IF Len(list) = 0 THEN <<>>
  ELSE InsertByAverage(SortByAverage(Front(list)), list[Len(list)])

\* the averages per subject taken over every student
getRepeaterStatsOfAllStudents(students, subjects) ==
  LET isRep(s)     == s.isRepeater
      notRep(s)    == ~s.isRepeater
      repeaters    == SelectSeq(students, isRep)
      nonRepeaters == SelectSeq(students, notRep)
      female(s)    == IsLabel(s.gender, FemaleLabel)
      passed(s)    == s.semesterAverage >= 10 * Scale
      perf(subject) == [subject |-> subject,
                        average |-> calculateAverage(GradesIn(students, subject))]
  IN  [repeaters |-> repeaters, totalRepeaters |-> Len(repeaters),
       femaleRepeaters |-> Count(repeaters, female),
       maleRepeaters |-> Len(repeaters) - Count(repeaters, female),
       repeaterAverage |-> calculateAverage(SemesterAverages(repeaters)),
       nonRepeaterAverage |-> calculateAverage(SemesterAverages(nonRepeaters)),
       successRate |-> IF Len(repeaters) # 0
                       THEN Frac(Count(repeaters, passed) * 100, Len(repeaters)) ELSE Zero,
       subjectPerformance |-> SortByAverage(Map(subjects, perf))]

getRepeaterStats(students, subjects) ==
  LET isRep(s)     == s.isRepeater
      notRep(s)    == ~s.isRepeater
      repeaters    == SelectSeq(students, isRep)
      nonRepeaters == SelectSeq(students, notRep)
      female(s)    == IsLabel(s.gender, FemaleLabel)
      passed(s)    == s.semesterAverage >= 10 * Scale
      perf(subject) == [subject |-> subject,
                        average |-> calculateAverage(GradesIn(repeaters, subject))]
  IN  [repeaters |-> repeaters, totalRepeaters |-> Len(repeaters),
       femaleRepeaters |-> Count(repeaters, female),
       maleRepeaters |-> Len(repeaters) - Count(repeaters, female),
       repeaterAverage |-> calculateAverage(SemesterAverages(repeaters)),
       nonRepeaterAverage |-> calculateAverage(SemesterAverages(nonRepeaters)),
       successRate |-> IF Len(repeaters) # 0
                       THEN Frac(Count(repeaters, passed) * 100, Len(repeaters)) ELSE Zero,
       subjectPerformance |-> SortByAverage(Map(subjects, perf))]

----------------------------------------------------------------------------
(* dataProcessing.ts: memoize                                               *)

Views == {"getSubjectAnalysis", "getGlobalSemesterStats", "getCategoryGlobalStats",
          "getOptionalSubjectsStats", "getDistributionStats",
          "getGeneralSubjectSummary", "getRepeaterStats"}

\* the wrapped computation of a view, on the current content of its arguments
Compute(view, args, h) ==
  CASE view = "getSubjectAnalysis"       -> getSubjectAnalysis(h[args[1]], h[args[2]])
    [] view = "getGlobalSemesterStats"   -> getGlobalSemesterStats(h[args[1]])
    [] view = "getCategoryGlobalStats"   -> getCategoryGlobalStats(h[args[1]])
    [] view = "getOptionalSubjectsStats" -> getOptionalSubjectsStats(h[args[1]], h[args[2]])
    [] view = "getDistributionStats"     -> getDistributionStats(h[args[1]], h[args[2]])
    [] view = "getGeneralSubjectSummary" -> getGeneralSubjectSummary(h[args[1]], h[args[2]])
    [] view = "getRepeaterStats"         -> getRepeaterStats(h[args[1]], h[args[2]])

\* let lastArgs = null; let lastResult = null
EmptySlot == [lastArgs |-> <<>>, hasArgs |-> FALSE, lastResult |-> [id |-> 0, val |-> <<>>]]

\* lastArgs && args.length === lastArgs.length && args.every((arg, i) => arg === lastArgs[i])
CacheHit(slot, args) ==
  /\ slot.hasArgs
  /\ Len(args) = Len(slot.lastArgs)
  /\ \A i \in 1..Len(args) : args[i] = slot.lastArgs[i]

\* the arguments compared by content instead of by reference
SlotAfterDeepEqual(slot, view, args, h, newId) ==
  IF /\ slot.hasArgs
     /\ Len(args) = Len(slot.lastArgs)
     /\ \A i \in 1..Len(args) : h[args[i]] = h[slot.lastArgs[i]]
  THEN slot
  ELSE [lastArgs |-> args, hasArgs |-> TRUE,
        lastResult |-> [id |-> newId, val |-> Compute(view, args, h)]]

\* lastArgs never stored: every call computes
SlotAfterNoStore(slot, view, args, h, newId) ==
  [lastArgs |-> <<>>, hasArgs |-> FALSE,
   lastResult |-> [id |-> newId, val |-> Compute(view, args, h)]]

\* the slot after a call with args; a computation produces the view's result
\* object number newId
SlotAfter(slot, view, args, h, newId) ==
  IF CacheHit(slot, args) THEN slot
  ELSE [lastArgs |-> args, hasArgs |-> TRUE,
        lastResult |-> [id |-> newId, val |-> Compute(view, args, h)]]

\* what the memoized function returns: lastResult after the call
Returned(slot, view, args, h, newId) == SlotAfter(slot, view, args, h, newId).lastResult

----------------------------------------------------------------------------
(* Input grids of the ingestion specification                               *)

MaxBody == 3

Nom == <<"N", "o", "m">>

Math == <<"M", "a", "t", "h">>

\* "rasm" (drawing), an optional subject
Rasm == <<"reh", "seen", "meem">>

Moy == <<"M", "o", "y">>

Ali == <<"A", "l", "i">>

Sam == <<"S", "a", "m">>

Eve == <<"E", "v", "e">>

\* a header row: ordinal, name, birth date, gender, repeater, two subjects, average
HdrFull == <<T(<<"#">>), T(Nom), T(<<"d">>), T(<<"G">>), T(<<"R">>), T(Math), T(Rasm), T(Moy)>>

\* a header row naming one subject twice, with a hole between the two columns
HdrDup == <<T(<<"#">>), T(<<"n", "o", "m">>), T(<<"d">>), T(<<"G">>), T(<<"R">>),
            T(Math), Absent, T(Math), T(Moy)>>

\* a header row of two cells, keyword in upper case
HdrShort == <<T(<<"#">>), T(<<"N", "O", "M">>)>>

\* number cells everywhere, every subject graded
RowAli == <<N(1), T(Ali), Absent, T(MaleLabel), Absent, N(12), N(8), N(11)>>

\* text cells with decimal commas, repeater, first subject graded 0
RowSam == <<N(2), T(Sam), Absent, T(FemaleLabel), T(YesMarker),
            T(<<"0">>), T(<<"9", ",", "5">>), T(<<"9", ",", "7", "5">>)>>

\* a row shorter than the header row, no gender
RowEve == <<N(3), T(Eve), Absent, Absent, T(<<"n", "o">>), N(7)>>

\* a totals row: no name, numbers only
RowTotals == <<Absent, Absent, Absent, Absent, Absent, N(10), N(9), N(10)>>

\* a row whose cells are all falsy without being absent
RowFalsy == <<T(<<>>), N(0)>>

RowBlank == <<>>

\* a keyword in the eleventh cell only
RowWide == <<N(1), N(2), N(3), N(4), N(5), N(6), N(7), N(8), N(9), N(10), T(Nom)>>

\* a title line: text without keyword
RowTitle == <<T(<<"L", "y", "c">>)>>

\* grade cells whose text reads as an infinite number, average not a number
RowInf == <<N(4), T(Ali), Absent, Absent, Absent,
            T(InfinityText), T(<<"-">> \o InfinityText), T(<<"x">>)>>

RowPool == {HdrFull, HdrDup, HdrShort, RowAli, RowSam, RowEve, RowTotals,
            RowFalsy, RowBlank, RowWide, RowTitle, RowInf}

\* rows of a preamble: one number cell, no text
PadRow == <<N(7)>>

\* preamble lengths: none, header at row 5, header at the last scanned row,
\* header just beyond the scanned rows
PadLengths == {0, FallbackHeaderRow, HeaderScanRows - 1, HeaderScanRows}

Bodies == UNION {[1..n -> RowPool] : n \in 0..MaxBody}

Grids == {[i \in 1..p |-> PadRow] \o b : p \in PadLengths, b \in Bodies}

----------------------------------------------------------------------------
(* Sample files of the application specifications                           *)

\* the line of row 4: two title words, semester (2 words), school year,
\* level (2 words), stream words, class number
MetaLine(level, streamWords, classNumber) ==
  T(Join(<<<<"B">>, <<"d">>, <<"T">>, <<"1">>, <<"2", "4">>, level, <<"A", "S">>>>
         \o streamWords \o <<classNumber>>, <<" ">>))

\* a sheet: title, blank row, directorate, school, metadata line, header row
\* at row 5, the student rows and the totals row
Sheet(level, streamWords, classNumber, rows) ==
  <<RowTitle, RowBlank, <<T(<<"D">>)>>, <<T(<<"L">>)>>,
    <<MetaLine(level, streamWords, classNumber)>>, HdrFull>> \o rows \o <<RowTotals>>

FileA1 == [name |-> "a1.xlsx", grid |-> Sheet(<<"1">>, <<<<"S">>>>, <<"1">>, <<RowAli, RowSam>>)]

FileA2 == [name |-> "a2.xlsx", grid |-> Sheet(<<"1">>, <<<<"S">>>>, <<"2">>, <<RowEve>>)]

\* another level
FileB == [name |-> "b.xlsx", grid |-> Sheet(<<"2">>, <<<<"S">>>>, <<"1">>, <<RowSam>>)]

\* another stream
FileC == [name |-> "c.xlsx", grid |-> Sheet(<<"1">>, <<<<"L">>>>, <<"3">>, <<RowAli>>)]

\* an empty sheet
FileE == [name |-> "e.xlsx", grid |-> <<>>]

\* a sheet without student rows
FileH == [name |-> "h.xlsx", grid |-> Sheet(<<"1">>, <<<<"S">>>>, <<"4">>, <<>>)]

\* a sheet with any row 4: title, blank row, directorate, school, row 4,
\* header row at row 5, the student rows and the totals row
SheetOn(row4, rows) ==
  <<RowTitle, RowBlank, <<T(<<"D">>)>>, <<T(<<"L">>)>>, row4, HdrFull>> \o rows \o <<RowTotals>>

\* rows 4 of 9, 10 and 8 words in one cell, of 7 and of 6 words, of 9 words
\* over several cells between empty and zero cells, and without cells
MetaRows ==
  { <<MetaLine(<<"1">>, <<<<"S">>>>, <<"1">>)>>,
    <<MetaLine(<<"1">>, <<<<"S">>, <<"T">>>>, <<"2">>)>>,
    <<MetaLine(<<"1">>, <<>>, <<"3">>)>>,
    <<T(<<"B", " ", "d", " ", "T", " ", "1", " ", "2", "4", " ", "1", " ", "A", "S">>)>>,
    <<T(<<"B", " ", "d", " ", "T", " ", "1", " ", "2", "4", " ", "1">>)>>,
    <<T(<<"B", " ", "d", " ", " ", "T">>), Absent, N(0), T(<<" ", "1", " ", "2", "4">>),
      T(<<>>), T(<<"1", " ", "A", "S", " ", "S">>), N(3)>>,
    <<>> }

SheetBodies == UNION {[1..n -> {RowAli, RowSam}] : n \in 0..2}

Sheets == {SheetOn(row4, rows) : row4 \in MetaRows, rows \in SheetBodies}

\* the grids handed to parseExcelFile
ParseInputs == Grids \cup Sheets

\* the file lists a user selects or drops
Batches == { <<FileA1>>, <<FileE>>, <<FileH>>, <<FileA2, FileA1>>, <<FileA1, FileC>>,
             <<FileA2, FileA1, FileB>> }

----------------------------------------------------------------------------
(* FileUpload.processFiles: the work done on each file and at the end       *)

\* the messages of processFiles, transliterated
ErrSingleMode == "laqad ikhtarta 'tahlil qism wahid', yurja raf' milaff wahid faqat."

ErrLevelMismatch == "khata': al-milaff yakhtalif fi al-mustawa al-dirasi 'an al-milaff al-awwal."

ErrStreamMismatch == "khata': al-milaff yakhtalif fi al-shu'ba 'an al-milaff al-awwal."

ErrNoValidData == "lam yatimm istikhraj bayanat saliha."

SingleDelay == 1000

MultiDelay == 1500

\* an error message with the file name and the two values it quotes
Message(text, file, got, first) == [text |-> text, file |-> file, got |-> got, first |-> first]

NoError == Message("", "", <<>>, <<>>)

ErrUnexpected == "hadatha khata' ghayr mutawaqqa'."

\* a success message with the two counts it quotes
Success(files, students) == [set |-> TRUE, files |-> files, students |-> students]

NoSuccess == [set |-> FALSE, files |-> 0, students |-> 0]

PlainError(text) == Message(text, "", <<>>, <<>>)

\* "kull al-aqsam" (all classes)
AllClasses == <<"kaf", "lam", " ", "alef", "lam", "alef-hamza", "qaf", "seen", "alef", "meem">>

\* "(mujamma')" (aggregated)
AggregationMarker == <<"(", "meem", "jeem", "meem", "ain", ")">>

\* `student-${i}`
StudentId(i) == <<"s", "t", "u", "d", "e", "n", "t", "-">> \o Digits(i)

\* the id without its file prefix: `s${i}`
MergedIdWithoutFile(fileIndex, i) == <<"s">> \o Digits(i)

\* `f${fileIndex}-s${i}`
MergedId(fileIndex, i) == <<"f">> \o Digits(fileIndex) \o <<"-", "s">> \o Digits(i)

\* result.students.map((s, i) => ({ ...s, id: `student-${i}` }))
FinalStudents(students) ==
  [i \in 1..Len(students) |-> [students[i] EXCEPT !.id = StudentId(i - 1)]]

\* result.students.map((s, i) => ({ ...s, id: ..., sourceClass: classNumber || '?' }))
StudentsWithIds(students, fileIndex, classNumber) ==
  [i \in 1..Len(students) |->
     [students[i] EXCEPT !.id = MergedId(fileIndex, i - 1),
                         !.sourceClass = IF classNumber # <<>> THEN classNumber ELSE <<"?">>]]

\* the locals of the multi-file branch before the loop; kept records how
\* many students each merged file gave
MultiStart ==
  [combinedStudents |-> <<>>, masterSubjects |-> <<>>, masterMetadata |-> EmptyMetadata,
   hasMaster |-> FALSE, processedCount |-> 0, kept |-> <<>>]

\* the validation without its stream comparison
MismatchOfLevelOnly(acc, file, result) ==
  IF acc.hasMaster /\ result.metadata.level # acc.masterMetadata.level
  THEN Message(ErrLevelMismatch, file.name, result.metadata.level, acc.masterMetadata.level)
  ELSE NoError

\* the level / stream validation of a parsed file against the first one
MismatchOf(acc, file, result) ==
  IF ~acc.hasMaster THEN NoError
  ELSE IF result.metadata.level # acc.masterMetadata.level
       THEN Message(ErrLevelMismatch, file.name, result.metadata.level, acc.masterMetadata.level)
  ELSE IF result.metadata.stream # acc.masterMetadata.stream
       THEN Message(ErrStreamMismatch, file.name, result.metadata.stream, acc.masterMetadata.stream)
  ELSE NoError

\* the subjects of the file merged last taken as master subjects
MergeFileLastSubjects(acc, fileIndex, result) ==
  [combinedStudents |-> acc.combinedStudents
        \o StudentsWithIds(result.students, fileIndex, result.metadata.classNumber),
   masterSubjects   |-> result.subjects,
   masterMetadata   |-> IF acc.hasMaster THEN acc.masterMetadata ELSE result.metadata,
   hasMaster        |-> TRUE,
   processedCount   |-> acc.processedCount + 1,
   kept             |-> Append(acc.kept, Len(result.students))]

\* one turn of the loop after `await parseExcelFile(file)` has resolved
MergeFile(acc, fileIndex, result) ==
  [combinedStudents |-> acc.combinedStudents
        \o StudentsWithIds(result.students, fileIndex, result.metadata.classNumber),
   masterSubjects   |-> IF acc.hasMaster THEN acc.masterSubjects ELSE result.subjects,
   masterMetadata   |-> IF acc.hasMaster THEN acc.masterMetadata ELSE result.metadata,
   hasMaster        |-> TRUE,
   processedCount   |-> acc.processedCount + 1,
   kept             |-> Append(acc.kept, Len(result.students))]

AggregatedMetadata(master) ==
  [master EXCEPT !.classNumber  = AllClasses,
                 !.className    = master.level \o <<" ">> \o master.stream \o <<" ">>
                                    \o AggregationMarker,
                 !.isAggregated = "true"]

\* what onDataLoaded is given
Dataset(students, subjects, metadata) ==
  [students |-> students, subjects |-> subjects, metadata |-> metadata]

----------------------------------------------------------------------------
(* App.tsx                                                                  *)

\* commonOptionalKeywords: "tashkiliya", "rasm", "musiqa", "musiqiya",
\* "amazighiya" (two spellings), "badaniya", "riyada"
OptionalKeywords ==
  { <<"teh", "sheen", "kaf", "yeh", "lam", "yeh", "teh-marbuta">>,
    <<"reh", "seen", "meem">>,
    <<"meem", "waw", "seen", "yeh", "qaf", "alef-maksura">>,
    <<"meem", "waw", "seen", "yeh", "qaf", "yeh", "teh-marbuta">>,
    <<"alef-hamza", "meem", "alef", "zain", "yeh", "ghain", "yeh", "teh-marbuta">>,
    <<"alef", "meem", "alef", "zain", "yeh", "ghain", "yeh", "teh-marbuta">>,
    <<"beh", "dal", "noon", "yeh", "teh-marbuta">>,
    <<"reh", "yeh", "alef", "dad", "teh-marbuta">> }

\* loadedSubjects.filter(subj => commonOptionalKeywords.some(k => subj.includes(k)))
DetectedOptional(loadedSubjects) ==
  LET optional(subj) == \E kw \in OptionalKeywords : Includes(subj, kw)
  IN  SelectSeq(loadedSubjects, optional)

\* prev.includes(subject) ? prev.filter(s => s !== subject) : [...prev, subject]
Toggled(prev, subject) ==
  LET other(x) == x # subject
  IN  IF \E i \in 1..Len(prev) : prev[i] = subject
      THEN SelectSeq(prev, other)
      ELSE Append(prev, subject)

\* a reference no array has yet
NewRef(h, k) == Cardinality(DOMAIN h) + k

DataTabs == {"students", "subjects", "subject_summary", "categories", "repeaters",
             "remedial", "past_remedial"}

\* the memoized view functions the component of a tab calls, in call order
TabViews(tab) ==
  CASE tab = "students"        -> <<"getSubjectAnalysis">>
    [] tab = "subjects"        -> <<"getSubjectAnalysis", "getGlobalSemesterStats">>
    [] tab = "subject_summary" -> <<"getGeneralSubjectSummary">>
    [] tab = "categories"      -> <<"getCategoryGlobalStats", "getOptionalSubjectsStats",
                                    "getDistributionStats">>
    [] tab = "repeaters"       -> <<"getRepeaterStats">>
    [] OTHER                   -> <<>>

\* the arguments a component passes to a view: the App state by reference
ViewArgs(view, a) ==
  IF view \in {"getGlobalSemesterStats", "getCategoryGlobalStats"} THEN <<a.students>>
  ELSE IF view = "getOptionalSubjectsStats" THEN <<a.students, a.optionalSubjects>>
  ELSE <<a.students, a.subjects>>

\* App renders FileUpload while students.length === 0
UploadPage(a, h) == Len(h[a.students]) = 0

\* the views called by the render of state a over heap h
Rendered(a, h) == IF UploadPage(a, h) THEN <<>> ELSE TabViews(a.activeTab)

\* the cache after the render
CacheAfterRender(c, n, a, h) ==
  LET vs == Rendered(a, h)
  IN  [v \in Views |->
         IF \E i \in 1..Len(vs) : vs[i] = v
         THEN SlotAfter(c[v], v, ViewArgs(v, a), h, n[v] + 1)
         ELSE c[v]]

\* the result counters after the render
ComputedAfterRender(c, n, a, h) ==
  LET c2 == CacheAfterRender(c, n, a, h)
  IN  [v \in Views |-> IF c2[v].lastResult.id = n[v] + 1 THEN n[v] + 1 ELSE n[v]]

\* what the components on screen hold after the render
ShownAfterRender(c, n, a, h) ==
  LET vs == Rendered(a, h)
      c2 == CacheAfterRender(c, n, a, h)
  IN  [v \in Views |->
         IF \E i \in 1..Len(vs) : vs[i] = v
         THEN [on |-> TRUE, ran |-> c2[v].lastResult.id = n[v] + 1,
               id |-> c2[v].lastResult.id, val |-> c2[v].lastResult.val]
         ELSE [on |-> FALSE, ran |-> FALSE, id |-> 0, val |-> <<>>]]

----------------------------------------------------------------------------
(* Values of the variables a specification leaves idle                      *)

Pending == [status |-> "pending", error |-> "", students |-> <<>>, subjects |-> <<>>,
            metadata |-> EmptyMetadata]

NoTrace == [headerRowIndex |-> -1, jsonData |-> <<>>, subjects |-> <<>>]

\* since: another view has been called since the last call of the view;
\* between: another view was called between the last two calls of the view
NoCall == [n |-> 0, runs |-> 0, ran |-> FALSE, args |-> <<>>, res |-> EmptySlot.lastResult,
           prevArgs |-> <<>>, prevRes |-> EmptySlot.lastResult, twoBack |-> <<>>,
           since |-> FALSE, between |-> FALSE]

NotShown == [on |-> FALSE, ran |-> FALSE, id |-> 0, val |-> <<>>]

\* useState: three empty arrays (references 1, 2, 3), no metadata, tab 'upload'
AppInit == [students |-> 1, subjects |-> 2, optionalSubjects |-> 3,
            metadata |-> EmptyMetadata, hasMetadata |-> FALSE, activeTab |-> "upload"]

\* useState of FileUpload at mount number inst
UploadAt(inst) ==
  [inst |-> inst, uploadMode |-> "single", error |-> NoError, success |-> NoSuccess]

UploadInit == UploadAt(1)

parseVars == <<rawData, parsed, trace>>

memoVars == <<heap, cache, computed, hist>>

appVars == <<app, shown, upload, jobs, timers>>

statVars == <<xs, ys, stats>>

vars == <<rawData, parsed, trace, heap, cache, computed, hist, app, shown, upload, jobs, timers,
          xs, ys, stats>>

ParseIdle == rawData = <<>> /\ parsed = Pending /\ trace = NoTrace

AppIdle ==
  /\ app = AppInit
  /\ shown = [v \in Views |-> NotShown]
  /\ upload = UploadInit
  /\ jobs = <<>>
  /\ timers = <<>>

NoStats == [fn |-> "none"]

StatIdle == xs = <<>> /\ ys = <<>> /\ stats = NoStats

MemoIdle ==
  /\ heap = (1 :> <<>>) @@ (2 :> <<>>) @@ (3 :> <<>>)
  /\ cache = [v \in Views |-> EmptySlot]
  /\ computed = [v \in Views |-> 0]
  /\ hist = [v \in Views |-> NoCall]

----------------------------------------------------------------------------
(* Specification of one ingestion                                           *)

\* the locals of reader.onload when it leaves (by resolve or by throw)
TraceOf(grid) ==
  IF Len(grid) = 0 THEN NoTrace
  ELSE LET h  == HeaderRowIndex(grid)
           js == PruneRows(grid, h)
       IN  [headerRowIndex |-> h, jsonData |-> js,
            subjects |-> IF Len(js) >= 1 /\ ~HeaderIsUnsupported(js[1])
                         THEN SubjectColumns(js[1]) ELSE <<>>]

InitParse ==
  /\ rawData \in ParseInputs
  /\ parsed = Pending
  /\ trace = NoTrace
  /\ MemoIdle
  /\ AppIdle
  /\ StatIdle

\* reader.onload
OnLoad ==
  /\ parsed.status = "pending"
  /\ parsed' = ParseExcelFile(rawData)
  /\ trace' = TraceOf(rawData)
  /\ UNCHANGED <<rawData, memoVars, appVars, statVars>>

\* reader.onerror
OnError ==
  /\ parsed.status = "pending"
  /\ parsed' = Rejected(ErrReadFailure)
  /\ UNCHANGED <<rawData, trace, memoVars, appVars, statVars>>

NextParse == OnLoad \/ OnError

SpecParse == InitParse /\ [][NextParse]_vars

----------------------------------------------------------------------------
(* Specification of the memoized view functions called on their own         *)

MaxCalls == 3

StudentsA == ParseExcelFile(FileA1.grid).students

\* references 1 and 2 hold equal student arrays; references 3 and 4 hold
\* different subject arrays
HeapOf(students) == (1 :> students) @@ (2 :> students) @@ (3 :> <<Math, Rasm>>) @@ (4 :> <<Rasm>>)

MemoHeap == HeapOf(StudentsA)

\* grade mappings in hundredths: on the limits 10 and 15 of the grade bands,
\* just below the limits 8 and 10, and on the limit 8 with no grade in Rasm
GradePool == {(Math :> 1000) @@ (Rasm :> 1500), (Math :> 799) @@ (Rasm :> 999), (Math :> 800)}

\* the two students of StudentsA with other grades
Regraded(first, second) ==
  <<[StudentsA[1] EXCEPT !.grades = first], [StudentsA[2] EXCEPT !.grades = second]>>

\* the row of a student whose gender cell is empty
RowNoGender == <<N(1), T(Ali), Absent, Absent, Absent, N(12), N(8), N(11)>>

\* the students of a sheet whose first student has no gender
StudentsU ==
  ParseExcelFile(Sheet(<<"1">>, <<<<"S">>>>, <<"1">>, <<RowNoGender, RowSam>>)).students

\* both students flagged as repeaters
AllRepeaters(students) == [i \in 1..Len(students) |-> [students[i] EXCEPT !.isRepeater = TRUE]]

MemoHeaps ==
  {MemoHeap} \cup {HeapOf(Regraded(first, second)) : first \in GradePool, second \in GradePool}
             \cup {HeapOf(AllRepeaters(Regraded(first, (Math :> 800)))) : first \in GradePool}
             \cup {HeapOf(StudentsU)}

StudentRefs == {1, 2}

SubjectRefs == {3, 4}

\* the argument lists a caller passes to a view
ArgLists(view) ==
  IF view \in {"getGlobalSemesterStats", "getCategoryGlobalStats"}
  THEN {<<a>> : a \in StudentRefs}
  ELSE {<<a, b>> : a \in StudentRefs, b \in SubjectRefs}

RECURSIVE CallsMade(_, _)
\* the number of calls made so far, over the views of vs
CallsMade(h, vs) ==
  IF vs = {} THEN 0
  ELSE LET v == CHOOSE x \in vs : TRUE IN h[v].n + CallsMade(h, vs \ {v})

InitMemo ==
  /\ heap \in MemoHeaps
  /\ cache = [v \in Views |-> EmptySlot]
  /\ computed = [v \in Views |-> 0]
  /\ hist = [v \in Views |-> NoCall]
  /\ ParseIdle
  /\ AppIdle
  /\ StatIdle

\* one slot shared by the seven views: lastArgs and lastResult of one closure
CacheAfterCallOnSharedSlot(view, slot) == [v \in Views |-> slot]

\* each memoize(...) has its own lastArgs and lastResult: a call writes the
\* slot of its view only
CacheAfterCall(view, slot) == [cache EXCEPT ![view] = slot]

\* the record of the calls after a call of view; with track, the record of
\* every other view that has been called notes that a call came after its own
HistAfterCall(view, args, slot, ran, track) ==
  [v \in Views |->
     IF v = view
     THEN [n |-> hist[v].n + 1,
           runs |-> hist[v].runs + (IF ran THEN 1 ELSE 0), ran |-> ran,
           args |-> args, res |-> slot.lastResult,
           prevArgs |-> hist[v].args, prevRes |-> hist[v].res,
           twoBack |-> hist[v].prevArgs,
           since |-> FALSE, between |-> hist[v].since]
     ELSE [hist[v] EXCEPT !.since = track /\ hist[v].n >= 1]]

\* one call of a memoized view function
Called(view, args, track) ==
  /\ CallsMade(hist, Views) < MaxCalls
  /\ LET slot == SlotAfter(cache[view], view, args, heap, computed[view] + 1)
         ran  == slot.lastResult.id = computed[view] + 1
     IN  /\ cache' = CacheAfterCall(view, slot)
         /\ computed' = [computed EXCEPT ![view] = IF ran THEN @ + 1 ELSE @]
         /\ hist' = HistAfterCall(view, args, slot, ran, track)
  /\ UNCHANGED <<heap, parseVars, appVars, statVars>>

Call(view, args) == Called(view, args, FALSE)

NextMemo == \E view \in Views : \E args \in ArgLists(view) : Call(view, args)

SpecMemo == InitMemo /\ [][NextMemo]_vars

----------------------------------------------------------------------------
(* Specification of interleaved calls of the views over one student array,  *)
(* with the order of the calls of different views recorded                  *)

InitInterleave ==
  /\ heap = MemoHeap
  /\ cache = [v \in Views |-> EmptySlot]
  /\ computed = [v \in Views |-> 0]
  /\ hist = [v \in Views |-> NoCall]
  /\ ParseIdle
  /\ AppIdle
  /\ StatIdle

CallInTurn(view, args) == Called(view, args, TRUE)

NextInterleave == \E view \in Views : \E args \in ArgLists(view) : CallInTurn(view, args)

SpecInterleave == InitInterleave /\ [][NextInterleave]_vars

----------------------------------------------------------------------------
(* Specification of the statistics functions called on their own            *)

MaxLen == 4

MaxLenY == 3

\* the numbers of the sequences, in hundredths: 0.1 and 12
SampleValues == {FHundredths(10), FHundredths(1200)}

SeqsUpTo(n) == UNION {[1..k -> SampleValues] : k \in 0..n}

InitStats ==
  /\ xs \in SeqsUpTo(MaxLen)
  /\ ys \in SeqsUpTo(MaxLenY)
  /\ stats = NoStats
  /\ ParseIdle
  /\ MemoIdle
  /\ AppIdle

\* a function has returned res
Returns(fn, res) ==
  /\ stats.fn = "none"
  /\ stats' = [fn |-> fn, res |-> res]
  /\ UNCHANGED <<xs, ys, parseVars, memoVars, appVars>>

\* the functions of one sequence are handed xs and no second sequence
CallAverage == ys = <<>> /\ Returns("calculateAverage", calculateAverage64(xs))

CallPassPercentage ==
  ys = <<>> /\ Returns("calculatePassPercentage", calculatePassPercentage64(xs, PassThreshold))

CallStandardDeviation ==
  ys = <<>> /\ Returns("calculateStandardDeviation", calculateStandardDeviation64(xs))

CallMode == ys = <<>> /\ Returns("calculateMode", calculateMode64(xs))

\* as the views call it: on the average and the standard deviation of a sequence
CallCV ==
  /\ ys = <<>>
  /\ Returns("calculateCV",
             calculateCV64(calculateAverage64(xs), calculateStandardDeviation64(xs)))

CallCorrelation == Returns("calculateCorrelation", calculateCorrelation(xs, ys))

NextStats ==
  \/ CallAverage
  \/ CallPassPercentage
  \/ CallStandardDeviation
  \/ CallMode
  \/ CallCV
  \/ CallCorrelation

SpecStats == InitStats /\ [][NextStats]_vars
----------------------------------------------------------------------------
(* Specification of the subject comparison of SubjectAnalysis.tsx           *)

MaxStudents == 2

\* which of the two compared subjects a student is graded in
GradedIn == {"both", "first", "second"}

\* the grades of the student at position k, in hundredths, different from
\* one position to the next
GradesAt(k, graded) ==
  CASE graded = "both"   -> (Math :> 800 + 150 * k) @@ (Rasm :> 1500 - 201 * k)
    [] graded = "first"  -> (Math :> 800 + 150 * k)
    [] graded = "second" -> (Rasm :> 1500 - 201 * k)

\* the students prop of the component
ComparedStudents(shape) ==
  [k \in 1..Len(shape) |-> [StudentsA[1] EXCEPT !.grades = GradesAt(k, shape[k])]]

CompareHeaps ==
  {HeapOf(ComparedStudents(shape)) : shape \in UNION {[1..n -> GradedIn] : n \in 0..MaxStudents}}

\* the numbers the stored grades are
GradeNumber ==
  [h \in {800 + 150 * k : k \in 1..(MaxStudents + 1)}
           \cup {1500 - 201 * k : k \in 1..(MaxStudents + 1)} |-> FHundredths(h)]

\* the options of the two selects: none, or one of the subjects
CompareOptions == {<<>>, Math, Rasm}

\* correlationDesc: "strong", "medium", "weak", "no correlation"
DescStrong == <<"irtibat", " ", "qawi">>

DescMedium == <<"irtibat", " ", "mutawassit">>

DescWeak == <<"irtibat", " ", "daif">>

DescNone == <<"la", " ", "yujad", " ", "irtibat">>

\* Math.abs(a)
FAbs(a) == IF a.sign < 0 THEN FNeg(a) ELSE a

CorrelationDesc(correlation) ==
  LET size == FAbs(correlation)
  IN  IF FAtLeast(size, FDiv(FFromInt(7), FFromInt(10))) THEN DescStrong
      ELSE IF FAtLeast(size, FDiv(FFromInt(3), FFromInt(10))) THEN DescMedium
      ELSE IF size # FZero THEN DescWeak
      ELSE DescNone

RECURSIVE SeriesOfEachSubject(_, _, _)
\* each series filtered on its own subject: every student graded in it
SeriesOfEachSubject(students, subject1, subject2) ==
  IF Len(students) = 0 THEN [grades1 |-> <<>>, grades2 |-> <<>>]
  ELSE LET rest == SeriesOfEachSubject(Front(students), subject1, subject2)
           s    == students[Len(students)]
       IN  [grades1 |-> IF subject1 \in DOMAIN s.grades
                        THEN Append(rest.grades1, GradeNumber[s.grades[subject1]])
                        ELSE rest.grades1,
            grades2 |-> IF subject2 \in DOMAIN s.grades
                        THEN Append(rest.grades2, GradeNumber[s.grades[subject2]])
                        ELSE rest.grades2]

RECURSIVE ComparisonSeries(_, _, _)
\* students.forEach(s => { if (typeof g1 === 'number' && typeof g2 === 'number')
\*                           { grades1.push(g1); grades2.push(g2) } })
ComparisonSeries(students, subject1, subject2) ==
  IF Len(students) = 0 THEN [grades1 |-> <<>>, grades2 |-> <<>>]
  ELSE LET rest == ComparisonSeries(Front(students), subject1, subject2)
           s    == students[Len(students)]
       IN  IF subject1 \in DOMAIN s.grades /\ subject2 \in DOMAIN s.grades
           THEN [grades1 |-> Append(rest.grades1, GradeNumber[s.grades[subject1]]),
                 grades2 |-> Append(rest.grades2, GradeNumber[s.grades[subject2]])]
           ELSE rest

\* useState of the component and the value of comparisonData (null at first)
NoComparison(subject1, subject2) ==
  [fn |-> "comparisonData", compareSubject1 |-> subject1, compareSubject2 |-> subject2,
   isNull |-> TRUE, correlation |-> FZero, correlationDesc |-> <<>>]

\* the useMemo of comparisonData after a change of one compared subject; the
\* entries s1 and s2 it looks up in allSubjectsStats do not depend on the series
ComparisonData(subject1, subject2) ==
  IF subject1 = <<>> \/ subject2 = <<>>
  THEN /\ stats' = NoComparison(subject1, subject2)
       /\ xs' = <<>>
       /\ ys' = <<>>
  ELSE \E series \in {ComparisonSeries(heap[1], subject1, subject2)} :
         \E correlation \in {calculateCorrelation(series.grades1, series.grades2)} :
           /\ xs' = series.grades1
           /\ ys' = series.grades2
           /\ stats' = [fn |-> "comparisonData", compareSubject1 |-> subject1,
                        compareSubject2 |-> subject2, isNull |-> FALSE,
                        correlation |-> correlation,
                        correlationDesc |-> CorrelationDesc(correlation)]

InitCompare ==
  /\ heap \in CompareHeaps
  /\ cache = [v \in Views |-> EmptySlot]
  /\ computed = [v \in Views |-> 0]
  /\ hist = [v \in Views |-> NoCall]
  /\ xs = <<>>
  /\ ys = <<>>
  /\ stats = NoComparison(<<>>, <<>>)
  /\ ParseIdle
  /\ AppIdle

\* onChange of the first select
SetCompareSubject1(subject) ==
  /\ subject # stats.compareSubject1
  /\ ComparisonData(subject, stats.compareSubject2)
  /\ UNCHANGED <<parseVars, memoVars, appVars>>

\* onChange of the second select
SetCompareSubject2(subject) ==
  /\ subject # stats.compareSubject2
  /\ ComparisonData(stats.compareSubject1, subject)
  /\ UNCHANGED <<parseVars, memoVars, appVars>>

NextCompare ==
  \/ \E subject \in CompareOptions : SetCompareSubject1(subject)
  \/ \E subject \in CompareOptions : SetCompareSubject2(subject)

SpecCompare == InitCompare /\ [][NextCompare]_vars


\* the three views hold results computed from the same students and subjects
SameInput(a, d, g) ==
  /\ a.hasArgs /\ d.hasArgs /\ g.hasArgs
  /\ \A i \in 1..2 : heap[a.lastArgs[i]] = heap[d.lastArgs[i]]
                     /\ heap[a.lastArgs[i]] = heap[g.lastArgs[i]]

\* C15: for every subject with at least one graded student the passPercentage
\* of getSubjectAnalysis and of getDistributionStats both equal
\* countAbove10 / studentCount * 100, studentCount being the count of
\* getGeneralSubjectSummary, and the two views report the same bucket counts.
C15_PassPercentageAgreesAcrossViews ==
  LET a == cache["getSubjectAnalysis"]
      d == cache["getDistributionStats"]
      g == cache["getGeneralSubjectSummary"]
  IN  SameInput(a, d, g) =>
        \A i \in 1..Len(g.lastResult.val) :
          LET sa == a.lastResult.val[i]
              sd == d.lastResult.val[i]
              sg == g.lastResult.val[i]
          IN  sg.studentCount > 0 =>
                /\ sa.passPercentage = Frac(sa.buckets.countAbove10 * 100, sg.studentCount)
                /\ sd.passPercentage = Frac(sd.buckets.countAbove10 * 100, sg.studentCount)
                /\ sa.buckets = sd.buckets

\* the three views have answered for the same input, in which a subject is
\* graded for one student only, with a grade of exactly 10
C15_Witness ==
  LET a == cache["getSubjectAnalysis"]
      d == cache["getDistributionStats"]
      g == cache["getGeneralSubjectSummary"]
  IN  /\ SameInput(a, d, g)
      /\ heap[1] = Regraded((Math :> 800), (Math :> 1000) @@ (Rasm :> 1500))
      /\ \E i \in 1..Len(g.lastResult.val) :
           /\ g.lastResult.val[i].studentCount = 1
           /\ d.lastResult.val[i].passPercentage = Frac(100, 1)
      /\ \E i \in 1..Len(g.lastResult.val) :
           /\ g.lastResult.val[i].studentCount = 2
           /\ a.lastResult.val[i].passPercentage = Frac(100, 2)

(***************************************************************************)
(* Properties of the statistics functions (SpecStats)                       *)

\* the number of elements of data[1..upTo] equal to val
CountUpTo(data, val, upTo) == Cardinality({i \in 1..upTo : data[i] = val})

MaxFrequency(data) ==
  CHOOSE n \in 0..Len(data) :
    /\ \E i \in 1..Len(data) : CountUpTo(data, data[i], Len(data)) = n
    /\ \A i \in 1..Len(data) : CountUpTo(data, data[i], Len(data)) <= n

\* the position at which the running count of val reaches n
ReachedAt(data, val, n) ==
  CHOOSE i \in 1..Len(data) : data[i] = val /\ CountUpTo(data, val, i) = n

\* C13: calculateMode on a non-empty sequence returns a value of maximal
\* frequency, and among the values of maximal frequency the one whose running
\* count reaches that frequency first in input order.
C13_ModeReachesMaximumFirst ==
  (stats.fn = "calculateMode" /\ Len(xs) > 0) =>
    LET top == MaxFrequency(xs)
        tied == {xs[i] : i \in {k \in 1..Len(xs) : CountUpTo(xs, xs[k], Len(xs)) = top}}
    IN  /\ stats.res \in tied
        /\ \A val \in tied : ReachedAt(xs, stats.res, top) <= ReachedAt(xs, val, top)

\* a tie settled for the value that is neither the first to appear nor the
\* smaller one: [0.1, 12, 12, 0.1] gives 12
C13_Witness ==
  /\ stats.fn = "calculateMode"
  /\ xs = <<FHundredths(10), FHundredths(1200), FHundredths(1200), FHundredths(10)>>
  /\ stats.res = FHundredths(1200)

\* C14: calculateCorrelation(x, y) equals calculateCorrelation(y, x), for
\* sequences of equal or unequal length, empty or not.
C14_CorrelationIsSymmetric ==
  stats.fn = "calculateCorrelation" => stats.res = calculateCorrelation(ys, xs)

\* two different sequences of one length with a correlation that is not 0
C14_Witness ==
  /\ stats.fn = "calculateCorrelation"
  /\ Len(xs) = Len(ys)
  /\ xs # ys
  /\ stats.res # FZero

\* every element of data is the same number: the variance of data is zero
IsConstant(data) == \A i \in 1..Len(data) : data[i] = data[1]

\* C20 (as claimed): the functions return 0 on degenerate input: the empty
\* sequence for calculateAverage, calculatePassPercentage,
\* calculateStandardDeviation and calculateMode, an average of 0 for
\* calculateCV, and for calculateCorrelation empty sequences, sequences of
\* different lengths, or a sequence of zero variance.
C20_DegenerateInputGivesZero ==
  /\ (/\ stats.fn \in {"calculateAverage", "calculatePassPercentage",
                       "calculateStandardDeviation", "calculateMode"}
      /\ xs = <<>>) => stats.res = FZero
  /\ (stats.fn = "calculateCV" /\ calculateAverage64(xs) = FZero) => stats.res = FZero
  /\ (/\ stats.fn = "calculateCorrelation"
      /\ \/ Len(xs) = 0
         \/ Len(xs) # Len(ys)
         \/ IsConstant(xs)
         \/ IsConstant(ys)) => stats.res = FZero

----------------------------------------------------------------------------
(* The steps of processFiles between two awaits                             *)

NoDataset == Dataset(<<>>, <<>>, EmptyMetadata)

\* a call of processFiles that awaits its first file
JobStart(inst, mode, files) ==
  [inst |-> inst, mode |-> mode, files |-> files, idx |-> 0, pc |-> "reading",
   acc |-> MultiStart, error |-> NoError, succeeded |-> FALSE, success |-> NoSuccess,
   out |-> NoDataset, delay |-> 0, delivered |-> 0]

\* the error kept and the loop carried on with the next file
FailedAndSkipped(job, message) ==
  LET next == [job EXCEPT !.idx = @ + 1,
                          !.error = IF message.text # "" THEN message
                                    ELSE PlainError(ErrUnexpected)]
  IN  IF next.idx < Len(job.files) THEN next ELSE [next EXCEPT !.pc = "done"]

\* the catch block: setError(err.message || ...)
Failed(job, message) ==
  [job EXCEPT !.pc = "done",
              !.error = IF message.text # "" THEN message ELSE PlainError(ErrUnexpected)]

\* setSuccess and setTimeout(() => onDataLoaded(...), delay)
Scheduled(job, success, dataset, delay) ==
  [job EXCEPT !.pc = "done", !.succeeded = TRUE, !.success = success,
              !.out = dataset, !.delay = delay]

\* the single-file branch after its await
SingleDone(job, result) ==
  LET finalStudents == FinalStudents(result.students)
  IN  Scheduled([job EXCEPT !.idx = 1], Success(1, Len(finalStudents)),
                Dataset(finalStudents, result.subjects, result.metadata), SingleDelay)

\* the multi-file branch after its loop
MultiDone(job) ==
  IF ~job.acc.hasMaster THEN Failed(job, PlainError(ErrNoValidData))
  ELSE Scheduled(job, Success(job.acc.processedCount, Len(job.acc.combinedStudents)),
                 Dataset(job.acc.combinedStudents, job.acc.masterSubjects,
                         AggregatedMetadata(job.acc.masterMetadata)),
                 MultiDelay)

\* the job once parseExcelFile has settled with result for its current file
JobAfter(job, result) ==
  LET file == job.files[job.idx + 1]
  IN  IF result.status = "rejected" THEN Failed(job, PlainError(result.error))
      ELSE IF job.mode = "single" THEN SingleDone(job, result)
      ELSE LET mismatch == MismatchOf(job.acc, file, result)
           IN  IF mismatch # NoError THEN Failed(job, mismatch)
               ELSE LET merged == [job EXCEPT !.acc = MergeFile(job.acc, job.idx, result),
                                              !.idx = @ + 1]
                    IN  IF merged.idx < Len(job.files) THEN merged ELSE MultiDone(merged)

RECURSIVE JobRun(_)
\* the job once every file it reads has loaded
JobRun(job) ==
  IF job.pc = "done" THEN job
  ELSE JobRun(JobAfter(job, ParseExcelFile(job.files[job.idx + 1].grid)))

----------------------------------------------------------------------------
(* Handlers of App and FileUpload                                           *)

\* the render of App in state a: the views of the mounted component are
\* called through their caches (useMemo calls them when the component
\* mounts or a dependency changes, and keeps their last value otherwise)
Render(a, h) ==
  /\ cache' = CacheAfterRender(cache, computed, a, h)
  /\ computed' = ComputedAfterRender(cache, computed, a, h)
  /\ shown' = ShownAfterRender(cache, computed, a, h)

\* FileUpload is mounted anew when the upload page replaces the data page
UploadAfter(a, h) ==
  IF ~UploadPage(app, heap) /\ UploadPage(a, h) THEN UploadAt(upload.inst + 1) ELSE upload

\* the detected subjects added to the selection the state already holds
HandleDataLoadedKeepingSelection(d) ==
  LET h == heap @@ (NewRef(heap, 1) :> d.students) @@ (NewRef(heap, 2) :> d.subjects)
                @@ (NewRef(heap, 3) :> heap[app.optionalSubjects] \o DetectedOptional(d.subjects))
      a == [students |-> NewRef(heap, 1), subjects |-> NewRef(heap, 2),
            optionalSubjects |-> NewRef(heap, 3), metadata |-> d.metadata,
            hasMetadata |-> TRUE, activeTab |-> "students"]
  IN  /\ heap' = h
      /\ app' = a
      /\ upload' = UploadAfter(a, h)
      /\ Render(a, h)

\* App.handleDataLoaded
HandleDataLoaded(d) ==
  LET h == heap @@ (NewRef(heap, 1) :> d.students) @@ (NewRef(heap, 2) :> d.subjects)
                @@ (NewRef(heap, 3) :> DetectedOptional(d.subjects))
      a == [students |-> NewRef(heap, 1), subjects |-> NewRef(heap, 2),
            optionalSubjects |-> NewRef(heap, 3), metadata |-> d.metadata,
            hasMetadata |-> TRUE, activeTab |-> "students"]
  IN  /\ heap' = h
      /\ app' = a
      /\ upload' = UploadAfter(a, h)
      /\ Render(a, h)

\* the button "new file" of the data page
Reset ==
  /\ ~UploadPage(app, heap)
  /\ LET h == heap @@ (NewRef(heap, 1) :> <<>>) @@ (NewRef(heap, 2) :> <<>>)
         a == [app EXCEPT !.students = NewRef(heap, 1), !.subjects = NewRef(heap, 2),
                          !.metadata = EmptyMetadata, !.hasMetadata = FALSE,
                          !.activeTab = "upload"]
     IN  /\ heap' = h
         /\ app' = a
         /\ upload' = UploadAfter(a, h)
         /\ Render(a, h)
  /\ UNCHANGED <<jobs, timers, hist, parseVars, statVars>>

\* the toggled list written into the array prev itself
ToggledRefInPlace(a, h) == a.optionalSubjects

\* the toggled list is a new array (filter or spread)
ToggledRef(a, h) == NewRef(h, 1)

\* App.toggleOptionalSubject, from the settings of the data page
ToggleOptionalSubject(subject) ==
  /\ ~UploadPage(app, heap)
  /\ LET ref == ToggledRef(app, heap)
         h   == [r \in DOMAIN heap \cup {ref} |->
                   IF r = ref THEN Toggled(heap[app.optionalSubjects], subject) ELSE heap[r]]
         a   == [app EXCEPT !.optionalSubjects = ref]
     IN  /\ heap' = h
         /\ app' = a
         /\ Render(a, h)
  /\ UNCHANGED <<upload, jobs, timers, hist, parseVars, statVars>>

\* a click on a tab of the data page
SetActiveTab(tab) ==
  /\ ~UploadPage(app, heap)
  /\ LET a == [app EXCEPT !.activeTab = tab]
     IN  /\ app' = a
         /\ Render(a, heap)
  /\ UNCHANGED <<heap, upload, jobs, timers, hist, parseVars, statVars>>

\* the mode buttons of FileUpload
SetUploadMode(mode) ==
  /\ UploadPage(app, heap)
  /\ upload' = [upload EXCEPT !.uploadMode = mode]
  /\ UNCHANGED <<app, jobs, timers, memoVars, shown, parseVars, statVars>>

\* what a call of processFiles leaves in the state of its FileUpload, if that
\* one is still mounted
UploadSeen(job) ==
  IF ~UploadPage(app, heap) \/ job.inst # upload.inst \/ job.pc # "done" THEN upload
  ELSE IF job.succeeded THEN [upload EXCEPT !.success = job.success]
  ELSE [upload EXCEPT !.error = job.error]

\* the job settles after a step: state of FileUpload and timer
Settle(j, job) ==
  /\ jobs' = [jobs EXCEPT ![j] = job]
  /\ upload' = UploadSeen(job)
  /\ timers' = IF job.pc = "done" /\ job.succeeded
               THEN Append(timers, [job |-> j, delay |-> job.delay]) ELSE timers
  /\ UNCHANGED <<app, memoVars, shown, parseVars, statVars>>

----------------------------------------------------------------------------
(* Specification of the upload page: calls of processFiles in flight        *)

MaxJobs == 2

UploadModes == {"single", "multi"}

InitUpload ==
  /\ app = AppInit
  /\ shown = [v \in Views |-> NotShown]
  /\ upload = UploadInit
  /\ jobs = <<>>
  /\ timers = <<>>
  /\ MemoIdle
  /\ ParseIdle
  /\ StatIdle

\* the call without its test of the upload mode
ProcessFilesInAnyMode(files) ==
  /\ UploadPage(app, heap)
  /\ Len(jobs) < MaxJobs
  /\ LET job == JobStart(upload.inst, upload.uploadMode, files)
     IN  /\ jobs' = Append(jobs, job)
         /\ upload' = [upload EXCEPT !.error = job.error, !.success = NoSuccess]
  /\ UNCHANGED <<timers, app, memoVars, shown, parseVars, statVars>>

\* FileUpload.processFiles up to its first await (handleFileChange and
\* handleDrop call it with one file at least)
ProcessFiles(files) ==
  /\ UploadPage(app, heap)
  /\ Len(jobs) < MaxJobs
  /\ LET start == JobStart(upload.inst, upload.uploadMode, files)
         job   == IF upload.uploadMode = "single" /\ Len(files) > 1
                  THEN Failed(start, PlainError(ErrSingleMode)) ELSE start
     IN  /\ jobs' = Append(jobs, job)
         /\ upload' = [upload EXCEPT !.error = job.error, !.success = NoSuccess]
  /\ UNCHANGED <<timers, app, memoVars, shown, parseVars, statVars>>

\* reader.onload of the file job j awaits, and processFiles up to its next await
FileRead(j) ==
  /\ jobs[j].pc = "reading"
  /\ Settle(j, JobAfter(jobs[j], ParseExcelFile(jobs[j].files[jobs[j].idx + 1].grid)))

\* reader.onerror of the file job j awaits, and the catch block of processFiles
FileReadError(j) ==
  /\ jobs[j].pc = "reading"
  /\ Settle(j, JobAfter(jobs[j], Rejected(ErrReadFailure)))

\* timer k can expire: no timer set earlier with a delay no longer is pending
CanFire(k) == \A k2 \in 1..(k - 1) : timers[k2].delay > timers[k].delay

\* the callback of setTimeout: onDataLoaded
Deliver(k) ==
  /\ CanFire(k)
  /\ HandleDataLoaded(jobs[timers[k].job].out)
  /\ jobs' = [jobs EXCEPT ![timers[k].job].delivered = @ + 1]
  /\ timers' = [i \in 1..(Len(timers) - 1) |-> IF i < k THEN timers[i] ELSE timers[i + 1]]
  /\ UNCHANGED <<hist, parseVars, statVars>>

NextUpload ==
  \/ \E mode \in UploadModes : SetUploadMode(mode)
  \/ \E files \in Batches : ProcessFiles(files)
  \/ \E j \in 1..Len(jobs) : FileRead(j)
  \/ \E j \in 1..Len(jobs) : FileReadError(j)
  \/ \E k \in 1..Len(timers) : Deliver(k)
  \/ Reset

SpecUpload == InitUpload /\ [][NextUpload]_vars

----------------------------------------------------------------------------
(* Specification of the application: the data page and its views            *)

MaxRefs == 9

\* k more arrays can be made
RefsLeft(k) == NewRef(heap, k) <= MaxRefs

\* the data sets processFiles hands to onDataLoaded
Deliverable ==
  LET run(call) == JobRun(JobStart(1, call[1], call[2]))
      calls     == {c \in UploadModes \X Batches : c[1] = "multi" \/ Len(c[2]) = 1}
  IN  {run(c).out : c \in {c \in calls : run(c).succeeded}}

Init ==
  /\ app = AppInit
  /\ shown = [v \in Views |-> NotShown]
  /\ upload = UploadInit
  /\ jobs = <<>>
  /\ timers = <<>>
  /\ MemoIdle
  /\ ParseIdle
  /\ StatIdle

\* onDataLoaded called by a timer of FileUpload
Load(d) ==
  /\ RefsLeft(3)
  /\ HandleDataLoaded(d)
  /\ UNCHANGED <<jobs, timers, hist, parseVars, statVars>>

Next ==
  \/ \E d \in Deliverable : Load(d)
  \/ RefsLeft(2) /\ Reset
  \/ \E subject \in {Math, Rasm} : RefsLeft(1) /\ ToggleOptionalSubject(subject)
  \/ \E tab \in DataTabs : SetActiveTab(tab)

Spec == Init /\ [][Next]_vars

----------------------------------------------------------------------------
(* Specification of the selection of optional subjects: data sets loaded    *)
(* one after the other (onDataLoaded of calls of processFiles still pending *)
(* when the data page is shown) and toggles in between                      *)

MaxArrays == 10

\* k more arrays can be made
ArraysLeft(k) == NewRef(heap, k) <= MaxArrays

LoadOver(d) ==
  /\ ArraysLeft(3)
  /\ HandleDataLoaded(d)
  /\ UNCHANGED <<jobs, timers, hist, parseVars, statVars>>

NextSelection ==
  \/ \E d \in Deliverable : LoadOver(d)
  \/ \E subject \in {Math, Rasm} : ArraysLeft(1) /\ ToggleOptionalSubject(subject)

SpecSelection == Init /\ [][NextSelection]_vars

----------------------------------------------------------------------------
(* Properties of one ingestion (SpecParse)                                  *)

\* reader.onload has run on a grid with at least one row
Ingested == parsed.status # "pending" /\ parsed.error # ErrReadFailure /\ Len(rawData) > 0

\* the rows from the detected header row onward, before pruning
FromHeader == SliceFrom(rawData, trace.headerRowIndex)

\* the header row detection settled on, as it stands in the grid
DetectedHeaderRow == rawData[trace.headerRowIndex + 1]

\* a row in which every cell is absent, the empty text or 0
FullyEmpty(row) == \A k \in 1..Len(row) : row[k].t = "absent" \/ row[k] = T(<<>>) \/ row[k] = N(0)

\* number of rows of a sequence up to its last row that is not fully empty
UpToLastNonEmpty(rows) ==
  IF \A k \in 1..Len(rows) : FullyEmpty(rows[k]) THEN 0
  ELSE CHOOSE k \in 1..Len(rows) :
         ~FullyEmpty(rows[k]) /\ \A j \in (k + 1)..Len(rows) : FullyEmpty(rows[j])

\* the 0-based source rows the students were built from, read off their
\* temporary ids temp-<index>, index counting the rows below the header row
StudentRows ==
  {trace.headerRowIndex + 1 + i : i \in {j \in 0..Len(rawData) :
       \E k \in 1..Len(parsed.students) : parsed.students[k].id = TempId(j)}}

\* one of the first 10 cells of the row, lower-cased, contains a keyword
KeywordInFirstCells(row) ==
  \E c \in 1..Min(Len(row), 10) : \E kw \in NameKeywords :
      Includes(ToLowerCase(ToStr(row[c])), kw)

\* C6 (as claimed): whenever fewer than one data row is left below the header
\* row after pruning (here: a header row found by its keyword, of at least 3
\* cells), ingestion fails with InsufficientData; it never succeeds with only
\* the header row left.
C6_InsufficientDataWhenNoDataRow ==
  (/\ Ingested
   /\ KeywordInFirstCells(DetectedHeaderRow)
   /\ Len(DetectedHeaderRow) >= 3
   /\ Len(trace.jsonData) < 2)
  => (parsed.status = "rejected" /\ parsed.error = ErrInsufficientData)

\* C7 (as claimed): after the trailing fully-empty rows, exactly one more row
\* is removed however many rows are left.
C7_AlwaysDropsOneMore ==
  Ingested => Len(trace.jsonData) = Max(UpToLastNonEmpty(FromHeader) - 1, 0)

\* C7 (amended): pruning keeps a prefix of the rows from the header row
\* onward; it removes every trailing fully-empty row and then one more row,
\* whatever its content, when more than one row is left (a lone remaining row
\* is kept); the last non-empty row of the grid is never made a student.
C7_PruneDropsOneMoreIfSeveral ==
  Ingested =>
    LET left == UpToLastNonEmpty(FromHeader)
    IN  /\ trace.jsonData = SubSeq(FromHeader, 1, IF left > 1 THEN left - 1 ELSE left)
        /\ (UpToLastNonEmpty(rawData) - 1) \notin StudentRows

\* C7 witness: a grid ending in an empty row was ingested; its last non-empty
\* row lies below the header row, bears a name and was removed
C7_Witness ==
  /\ Ingested /\ parsed.status = "resolved"
  /\ KeywordInFirstCells(DetectedHeaderRow)
  /\ FullyEmpty(rawData[Len(rawData)])
  /\ Truthy(At(rawData[UpToLastNonEmpty(rawData)], 1))
  /\ UpToLastNonEmpty(FromHeader) - Len(trace.jsonData) = 1

MessagesDiffer ==
  /\ ErrEmptyInput # ErrInsufficientData
  /\ ErrEmptyInput # ErrUnsupportedHeader
  /\ ErrInsufficientData # ErrUnsupportedHeader

\* C8 (as claimed): an empty grid is rejected with EmptyInput and a detected
\* header row of fewer than 3 cells with UnsupportedHeader; the messages
\* differ and a rejection carries no result.
C8_ErrorsAsClaimed ==
  /\ (parsed.status # "pending" /\ parsed.error # ErrReadFailure /\ Len(rawData) = 0)
       => (parsed.status = "rejected" /\ parsed.error = ErrEmptyInput)
  /\ (Ingested /\ Len(DetectedHeaderRow) < 3)
       => (parsed.status = "rejected" /\ parsed.error = ErrUnsupportedHeader)
  /\ MessagesDiffer

\* C8 (amended): an empty grid is rejected with EmptyInput; a detected header
\* row of fewer than 3 cells is rejected with UnsupportedHeader when some row
\* from the header row onward is not fully empty, and with InsufficientData
\* when all of them are; the three messages differ pairwise and a rejected
\* ingestion yields no students, subjects or metadata.
C8_ErrorsWithPrecedence ==
  /\ (parsed.status # "pending" /\ parsed.error # ErrReadFailure /\ Len(rawData) = 0)
       => (parsed.status = "rejected" /\ parsed.error = ErrEmptyInput)
  /\ (Ingested /\ Len(DetectedHeaderRow) < 3)
       => /\ parsed.status = "rejected"
          /\ parsed.error = IF UpToLastNonEmpty(FromHeader) = 0
                            THEN ErrInsufficientData ELSE ErrUnsupportedHeader
  /\ MessagesDiffer
  /\ parsed.status = "rejected"
       => parsed.students = <<>> /\ parsed.subjects = <<>> /\ parsed.metadata = EmptyMetadata

\* C8 witness: a non-empty header row of fewer than 3 cells was rejected
C8_Witness ==
  /\ Ingested /\ Len(DetectedHeaderRow) < 3 /\ ~FullyEmpty(DetectedHeaderRow)
  /\ parsed.error = ErrUnsupportedHeader

\* the 0-based rows among the scanned ones that carry a keyword
KeywordRows ==
  {i \in 0..(Min(Len(rawData), 20) - 1) : KeywordInFirstCells(rawData[i + 1])}

\* C9: when one of the first min(rowCount, 20) rows carries a name-column
\* keyword in its first 10 cells (lower-cased), the header row is the smallest
\* such row index, and every subject delivered is the text of a cell of that
\* row at column 5 or beyond.
C9_HeaderIsFirstKeywordRow ==
  (Ingested /\ KeywordRows # {}) =>
    /\ trace.headerRowIndex \in KeywordRows
    /\ \A i \in KeywordRows : trace.headerRowIndex <= i
    /\ \A k \in 1..Len(parsed.subjects) :
         \E c \in 6..Len(DetectedHeaderRow) :
            DetectedHeaderRow[c].t # "absent" /\ ToStr(DetectedHeaderRow[c]) = parsed.subjects[k]

\* C9 witness: the first keyword row is row 5, a later row carries a keyword
\* too, and subjects were delivered
C9_Witness ==
  /\ Ingested /\ parsed.status = "resolved" /\ Len(parsed.subjects) >= 1
  /\ trace.headerRowIndex = 5
  /\ Cardinality(KeywordRows) >= 2
  /\ 5 \in KeywordRows

\* the row at 0-based index 5 holds a cell whose value is a string (the empty
\* string included)
Row5HasText ==
  /\ Len(rawData) >= 6
  /\ \E c \in 1..Len(rawData[6]) : rawData[6][c].t = "text"

\* C22: when none of the first min(rowCount, 20) rows matches a name-column
\* keyword (in its first 10 cells, lower-cased), the header row is row 5 if
\* the grid has a row 5 holding at least one text cell, and row 0 otherwise;
\* the rows from that row onward are what is pruned and ingested.
C22_FallbackHeaderRow ==
  (Ingested /\ KeywordRows = {}) =>
    /\ trace.headerRowIndex = IF Row5HasText THEN 5 ELSE 0
    /\ \E n \in 0..Len(rawData) :
         trace.jsonData = SubSeq(rawData, trace.headerRowIndex + 1, n)

\* C22 witness: a grid without keyword row was ingested from its row 5 and
\* gave a student
C22_Witness ==
  /\ Ingested /\ KeywordRows = {} /\ Row5HasText
  /\ trace.headerRowIndex = 5
  /\ parsed.status = "resolved" /\ Len(parsed.students) >= 1

\* C22, second case: a grid without keyword row whose row 5 holds numbers only
\* was ingested from its row 0
C22_WitnessRow0 ==
  /\ Ingested /\ KeywordRows = {} /\ Len(rawData) >= 6 /\ ~Row5HasText
  /\ ~FullyEmpty(rawData[6])
  /\ trace.headerRowIndex = 0

\* the cell at 0-based index c of the grade area of the row was stored as the
\* grade of a subject: c is the column of a candidate subject and the cell
\* reads as a number
StoredAsGrade(row, c) ==
  /\ c < Len(trace.subjects)
  /\ trace.subjects[c + 1].t # "absent"
  /\ Coerce(At(SliceFrom(row, FirstGradeColumn), c)).k = "num"

\* the semester average a cell gives: its number, 0 if it is absent or does
\* not read as a number
AverageFrom(cell) == IF Coerce(cell).k = "num" THEN Coerce(cell).v ELSE 0

\* C27 (as claimed): for every row a student was built from, rows shorter
\* than the header row included, the cell taken as semester average (the last
\* cell of the row's grade area) is not stored as the grade of a subject, and
\* the semester average is what the cell under the last header cell gives
C27_AverageCellIsNoGrade ==
  parsed.status = "resolved" =>
    \A k \in 1..Len(parsed.students) :
      LET row       == parsed.students[k].originalRow
          gradeArea == Len(row) - FirstGradeColumn
          headerRow == trace.jsonData[1]
      IN  /\ gradeArea > 0 => ~StoredAsGrade(row, gradeArea - 1)
          /\ parsed.students[k].semesterAverage = AverageFrom(At(row, Len(headerRow) - 1))

\* C27 on the rows that are exactly as long as a header row of more than 5
\* cells: the average is the cell under the last header cell and no grade
C27_HoldsForRowsOfHeaderLength ==
  parsed.status = "resolved" =>
    \A k \in 1..Len(parsed.students) :
      LET row       == parsed.students[k].originalRow
          headerRow == trace.jsonData[1]
      IN  (Len(row) = Len(headerRow) /\ Len(headerRow) > FirstGradeColumn) =>
            /\ ~StoredAsGrade(row, Len(row) - FirstGradeColumn - 1)
            /\ parsed.students[k].semesterAverage = AverageFrom(At(row, Len(headerRow) - 1))

\* a student was built from a row shorter than the header row: the only cell
\* of its grade area is both the grade of the first subject and the average
C27_ShortRow ==
  /\ parsed.status = "resolved"
  /\ trace.jsonData[1] = HdrFull
  /\ \E k \in 1..Len(parsed.students) :
       /\ parsed.students[k].originalRow = RowEve
       /\ parsed.students[k].grades = (Math :> 700)
       /\ parsed.students[k].semesterAverage = 700

\* the names of the candidate subjects: the present cells of the header row
\* from column 5 to the cell before the last
CandidateNames ==
  LET cols == SubSeq(DetectedHeaderRow, 6, Len(DetectedHeaderRow) - 1)
      here(c) == c.t # "absent"
      cells == SelectSeq(cols, here)
  IN  [i \in 1..Len(cells) |-> IF cells[i].t = "text" THEN cells[i].s ELSE NumToText(cells[i].v)]

\* some constructed student has a stored grade above 0 in the subject
HasPositiveGrade(subject) ==
  \E k \in 1..Len(parsed.students) :
     LET g == parsed.students[k].grades
     IN  subject \in DOMAIN g /\ g[subject] >= 1

\* C10: the delivered ActiveSubjects are the candidate subjects in which at
\* least one constructed student has a stored grade > 0, in the column order
\* of the header row.
C10_ActiveSubjectsArePositive ==
  (Ingested /\ parsed.status = "resolved") =>
     parsed.subjects = SelectSeq(CandidateNames, HasPositiveGrade)

\* C10 witness: a candidate in which every stored grade is 0 was dropped and
\* another candidate was kept
C10_Witness ==
  /\ Ingested /\ parsed.status = "resolved"
  /\ Len(parsed.subjects) >= 1
  /\ \E i \in 1..Len(CandidateNames) :
        /\ ~HasPositiveGrade(CandidateNames[i])
        /\ \E k \in 1..Len(parsed.students) :
              /\ CandidateNames[i] \in DOMAIN parsed.students[k].grades
              /\ parsed.students[k].grades[CandidateNames[i]] = 0

\* C12 (as claimed): every grade stored in a student record by an ingestion
\* is a finite number
C12_StoredGradesAreFinite ==
  parsed.status = "resolved" =>
    \A k \in 1..Len(parsed.students) :
      \A subject \in DOMAIN parsed.students[k].grades :
        IsFinite(parsed.students[k].grades[subject])

\* the grid is well formed for the end-to-end claim: the header row HdrFull
\* was detected at row 5, and every named row below it is as wide as the
\* header row and holds a number in the average column
WellFormedGrid ==
  /\ parsed.status = "resolved"
  /\ trace.headerRowIndex = FallbackHeaderRow
  /\ DetectedHeaderRow = HdrFull
  /\ \A k \in 2..Len(FromHeader) :
       Truthy(At(FromHeader[k], 1)) =>
         /\ Len(FromHeader[k]) = Len(HdrFull)
         /\ Coerce(FromHeader[k][Len(HdrFull)]).k = "num"

\* the named rows among rows, and those of them with an average of 10 or more
NamedRows(rows) == {k \in 1..Len(rows) : Truthy(At(rows[k], 1))}

PassingRows(rows) ==
  {k \in NamedRows(rows) : Coerce(rows[k][Len(HdrFull)]).v >= PassThreshold * Scale}

\* totalStudents = N and overallSuccessRate = 100 k / N (0 for N = 0) for the
\* N named rows of rows, k of them passing
CountedAre(rows) ==
  LET result == getCategoryGlobalStats(parsed.students)
      n      == Cardinality(NamedRows(rows))
      k      == Cardinality(PassingRows(rows))
  IN  /\ result.totalStudents = n
      /\ result.overallSuccessRate = IF n = 0 THEN Zero ELSE Frac(100 * k, n)

\* C16 (as claimed): for a well-formed grid with header at row 5 and N named
\* student rows, k of them with an average of 10 or more, getCategoryGlobalStats
\* of the ingested students has totalStudents = N and overallSuccessRate =
\* 100 k / N, and 0 without students.
C16_EveryNamedRowCounted ==
  WellFormedGrid => CountedAre(SliceFrom(FromHeader, 1))

\* C16 (amended): the N named rows are those between the header row and the
\* last non-empty row of the grid; that last row is removed whatever it holds.
C16_NamedRowsAboveLastCounted ==
  WellFormedGrid =>
    CountedAre(Slice(FromHeader, 1, UpToLastNonEmpty(FromHeader) - 1))

\* C16 witness: a sheet with two student rows above its totals row, one of
\* them passing: 2 students, success rate 50
C16_Witness ==
  /\ WellFormedGrid
  /\ FromHeader = <<HdrFull, RowAli, RowSam, RowTotals>>
  /\ getCategoryGlobalStats(parsed.students).totalStudents = 2
  /\ getCategoryGlobalStats(parsed.students).overallSuccessRate = Frac(50, 1)

RECURSIVE WordsOf(_, _)
\* the maximal runs of characters other than spaces in s; cur is the run
\* being read
WordsOf(s, cur) ==
  LET done == IF Len(cur) = 0 THEN <<>> ELSE <<cur>>
  IN  IF Len(s) = 0 THEN done
      ELSE IF IsSpace(s[1]) THEN done \o WordsOf(Tail(s), <<>>)
      ELSE WordsOf(Tail(s), cur \o <<s[1]>>)

\* the words of row 4: its non-empty cells (a cell holding 0 counts as
\* empty) joined with spaces and split on white space
WordsOfRow4 ==
  IF Len(rawData) > 4 THEN WordsOf(JoinCells(SelectSeq(rawData[5], Truthy), <<" ">>), <<>>)
  ELSE <<>>

\* the texts of parts that are not empty, with one space between them
Spaced(parts) ==
  LET filled(t) == Len(t) > 0 IN Join(SelectSeq(parts, filled), <<" ">>)

\* C19: with fewer than 7 words in row 4 the six extracted fields stay empty;
\* otherwise semester = words 2 and 3, schoolYear = word 4, level = words 5
\* and 6, classNumber = the last word, stream = words 7 to len-2 when there
\* are more than 8 words and empty otherwise, className = level, stream and
\* classNumber with single spaces.  No row 4 makes the ingestion of a sheet
\* fail, and a rejection is one of the errors of the other steps.
C19_MetadataFromRow4 ==
  LET w == WordsOfRow4
      n == Len(w)
      m == parsed.metadata
  IN  /\ (parsed.status = "resolved" /\ n < MinMetadataWords) =>
            /\ m.semester = EmptyText /\ m.schoolYear = EmptyText /\ m.level = EmptyText
            /\ m.stream = EmptyText /\ m.classNumber = EmptyText /\ m.className = EmptyText
      /\ (parsed.status = "resolved" /\ n >= MinMetadataWords) =>
            /\ m.semester = w[3] \o <<" ">> \o w[4]
            /\ m.schoolYear = w[5]
            /\ m.level = w[6] \o <<" ">> \o w[7]
            /\ m.classNumber = w[n]
            /\ m.stream = IF n > 8 THEN Spaced(SubSeq(w, 8, n - 1)) ELSE EmptyText
            /\ m.className = Spaced(<<m.level, m.stream, m.classNumber>>)
      /\ (parsed.status = "rejected") =>
            parsed.error \in {ErrEmptyInput, ErrInsufficientData, ErrUnsupportedHeader,
                              ErrReadFailure}
      /\ (rawData \in Sheets /\ parsed.status # "pending" /\ parsed.error # ErrReadFailure) =>
            parsed.status = "resolved"

\* C19 witness: a row 4 of 9 words spread over cells, between empty and zero
\* cells, has given a stream of one word and the class name of four words
C19_Witness ==
  /\ parsed.status = "resolved"
  /\ Len(WordsOfRow4) = 9
  /\ Len(rawData[5]) > 1
  /\ parsed.metadata.stream = <<"S">>
  /\ parsed.metadata.classNumber = <<"3">>
  /\ parsed.metadata.className = <<"1", " ", "A", "S", " ", "S", " ", "3">>

----------------------------------------------------------------------------
(* Properties of memoize (SpecMemo)                                         *)

\* C3: a call of a view whose arguments are reference-identical to those of
\* the preceding call of that view returns the result object of that call
\* and runs no computation.
C3_SameReferencesHitCache ==
  \A v \in Views :
    (hist[v].n >= 2 /\ hist[v].args = hist[v].prevArgs) =>
       /\ ~hist[v].ran
       /\ hist[v].res.id = hist[v].prevRes.id
       /\ hist[v].res.val = hist[v].prevRes.val

\* C3 witness: a view was called twice in a row with the same references,
\* another view having been called before
C3_Witness ==
  \E v \in Views : \E w \in Views \ {v} :
     hist[v].n = 2 /\ hist[v].args = hist[v].prevArgs /\ hist[w].n = 1 /\ hist[v].runs = 1

\* C4: a call of a view whose argument references differ from those of its
\* preceding call runs the computation again and returns a new result
\* object, also when the arguments hold equal contents or were those of the
\* call before the preceding one; so a view called n times, each time with
\* other references than the time before, has computed n times.
C4_NewReferencesRecompute ==
  \A v \in Views :
    /\ (hist[v].n >= 2 /\ hist[v].args # hist[v].prevArgs) =>
          /\ hist[v].ran
          /\ hist[v].res.id > hist[v].prevRes.id
    /\ (hist[v].n = 3 /\ hist[v].args # hist[v].prevArgs /\ hist[v].prevArgs # hist[v].twoBack)
          => hist[v].runs = 3

\* C4 witness: a view was called with A, B, A, where A and B are different
\* references to equal contents, and computed three times
C4_Witness ==
  \E v \in Views :
     /\ hist[v].n = 3 /\ hist[v].runs = 3
     /\ hist[v].args = hist[v].twoBack /\ hist[v].args # hist[v].prevArgs
     /\ \A i \in 1..Len(hist[v].args) : heap[hist[v].args[i]] = heap[hist[v].prevArgs[i]]

\* the students flagged as repeaters that hold a number in the subject, by
\* their positions
GradedRepeaters(students, subject) ==
  {k \in 1..Len(students) : students[k].isRepeater /\ subject \in DOMAIN students[k].grades}

RECURSIVE TotalIn(_, _, _)
\* the sum of the grades the students at the positions of ks have in the subject
TotalIn(students, subject, ks) ==
  IF ks = {} THEN 0
  ELSE LET k == CHOOSE x \in ks : TRUE
       IN  students[k].grades[subject] + TotalIn(students, subject, ks \ {k})

\* C23: subjectPerformance holds one entry per input subject; the average
\* of an entry is the sum of the grades the repeaters have in its subject
\* divided by their number, 0 when no repeater is graded in it; the entries
\* are in non-decreasing order of average.
C23_RepeaterSubjectPerformance ==
  LET slot == cache["getRepeaterStats"]
  IN  slot.hasArgs =>
        LET students == heap[slot.lastArgs[1]]
            subjects == heap[slot.lastArgs[2]]
            perf     == slot.lastResult.val.subjectPerformance
        IN  /\ Len(perf) = Len(subjects)
            /\ \A i \in 1..Len(subjects) :
                 Cardinality({n \in 1..Len(perf) : perf[n].subject = subjects[i]}) = 1
            /\ \A n \in 1..Len(perf) :
                 LET ks == GradedRepeaters(students, perf[n].subject)
                 IN  /\ perf[n].average.den > 0
                     /\ IF ks = {} THEN perf[n].average.num = 0
                        ELSE perf[n].average.num * Cardinality(ks)
                               = TotalIn(students, perf[n].subject, ks) * perf[n].average.den
            /\ \A n \in 1..(Len(perf) - 1) : ~FracLess(perf[n + 1].average, perf[n].average)

\* the view has answered for two repeaters and the subjects Math, Rasm: no
\* repeater is graded in Rasm, which comes first with average 0
C23_Witness ==
  LET slot == cache["getRepeaterStats"]
  IN  /\ slot.hasArgs
      /\ heap[slot.lastArgs[2]] = <<Math, Rasm>>
      /\ Cardinality(GradedRepeaters(heap[slot.lastArgs[1]], Math)) = 2
      /\ slot.lastResult.val.subjectPerformance[1] = [subject |-> Rasm, average |-> Zero]

\* the view has answered for two repeaters whose mean in a subject is not a
\* whole number of hundredths
C23_WitnessMean ==
  LET slot == cache["getRepeaterStats"]
  IN  /\ slot.hasArgs
      /\ \E n \in 1..Len(slot.lastResult.val.subjectPerformance) :
           slot.lastResult.val.subjectPerformance[n].average.den = 2

\* the number of students that hold a number in the subject
GradedCount(students, subject) ==
  Cardinality({k \in 1..Len(students) : subject \in DOMAIN students[k].grades})

\* the four bands of an entry add up to graded, and the count of grades of 10
\* and above is that of the two upper bands
BandsPartition(buckets, graded) ==
  /\ buckets.countBelow8 + buckets.count8to9 + buckets.count10to14 + buckets.countAbove15
       = graded
  /\ buckets.countAbove10 = buckets.count10to14 + buckets.countAbove15

\* C25: for every subject reported by getSubjectAnalysis and by
\* getDistributionStats, countBelow8 + count8to9 + count10to14 + countAbove15
\* is the number of students with a numeric grade in the subject, and
\* countAbove10 = count10to14 + countAbove15.
C25_BucketsPartitionGraded ==
  \A v \in {"getSubjectAnalysis", "getDistributionStats"} :
    cache[v].hasArgs =>
      LET students == heap[cache[v].lastArgs[1]]
          subjects == heap[cache[v].lastArgs[2]]
          entries  == cache[v].lastResult.val
      IN  /\ Len(entries) = Len(subjects)
          /\ \A i \in 1..Len(entries) :
               /\ entries[i].subject = subjects[i]
               /\ BandsPartition(entries[i].buckets, GradedCount(students, subjects[i]))

\* both views have answered for two students, one of them without grade in
\* Rasm and with a grade of 8 in Math, the other with grades of 10 and 15
C25_Witness ==
  /\ \A v \in {"getSubjectAnalysis", "getDistributionStats"} :
       /\ cache[v].hasArgs
       /\ heap[cache[v].lastArgs[1]] = Regraded((Math :> 800), (Math :> 1000) @@ (Rasm :> 1500))
       /\ heap[cache[v].lastArgs[2]] = <<Math, Rasm>>
       /\ cache[v].lastResult.val[1].buckets.count8to9 = 1
       /\ cache[v].lastResult.val[1].buckets.count10to14 = 1
       /\ cache[v].lastResult.val[2].buckets.countAbove15 = 1
       /\ cache[v].lastResult.val[2].buckets.countBelow8 = 0

\* the students bearing a gender label, by their positions
Labelled(students, label) ==
  {k \in 1..Len(students) : IsLabel(students[k].gender, label)}

\* the students with a semester average of 10 or more, by their positions
Successful(students) ==
  {k \in 1..Len(students) : students[k].semesterAverage >= 10 * Scale}

\* 100 * |successful students of population| / |population|, 0 for no one
RateIn(students, population) ==
  IF population = {} THEN Zero
  ELSE Frac(100 * Cardinality(population \cap Successful(students)), Cardinality(population))

\* C26 (as claimed): in categoryGlobalStats, for every student list,
\* successfulFemales + successfulMales = successfulStudents, and
\* maleSuccessRate is 100 * (successful males) / (students counted as male)
\* over one population of males, be it the students labelled male or the
\* students not labelled female
C26_GenderSplitConsistent ==
  LET slot == cache["getCategoryGlobalStats"]
  IN  slot.hasArgs =>
        LET students == heap[slot.lastArgs[1]]
            res      == slot.lastResult.val
            females  == Labelled(students, FemaleLabel)
        IN  /\ res.successfulFemales + res.successfulMales = res.successfulStudents
            /\ \E males \in {Labelled(students, MaleLabel), (1..Len(students)) \ females} :
                 /\ res.successfulMales = Cardinality(males \cap Successful(students))
                 /\ res.maleSuccessRate = RateIn(students, males)

\* C26 on lists in which every student is labelled female or male: the split
\* adds up and the rates are those of the two labelled populations
C26_ConsistentWhenAllLabelled ==
  LET slot == cache["getCategoryGlobalStats"]
  IN  slot.hasArgs =>
        LET students == heap[slot.lastArgs[1]]
            res      == slot.lastResult.val
            females  == Labelled(students, FemaleLabel)
            males    == Labelled(students, MaleLabel)
        IN  females \cup males = 1..Len(students) =>
              /\ res.successfulFemales + res.successfulMales = res.successfulStudents
              /\ res.maleSuccessRate = RateIn(students, males)
              /\ res.femaleSuccessRate = RateIn(students, females)

\* the view has answered for a list whose only successful student has the
\* default gender: no successful male, one student counted as male
C26_Unlabelled ==
  LET slot == cache["getCategoryGlobalStats"]
  IN  /\ slot.hasArgs
      /\ heap[slot.lastArgs[1]] = StudentsU
      /\ heap[slot.lastArgs[1]][1].gender = T(GenderUnspecified)
      /\ slot.lastResult.val.successfulStudents = 1
      /\ slot.lastResult.val.successfulFemales + slot.lastResult.val.successfulMales = 0
      /\ slot.lastResult.val.totalStudents - slot.lastResult.val.totalFemales = 1
      /\ slot.lastResult.val.maleSuccessRate = Zero

\* C30: a call of one view leaves the slot and the computation count of every
\* other view as they were; and a view called with the references of its own
\* preceding call returns the result object of that call without computing,
\* whichever other views were called since.
C30_SlotsAreIndependent ==
  [][\A v \in Views :
       IF hist'[v].n = hist[v].n
       THEN cache'[v] = cache[v] /\ computed'[v] = computed[v]
       ELSE (hist[v].n >= 1 /\ hist'[v].args = hist[v].args) =>
              /\ ~hist'[v].ran
              /\ hist'[v].res = hist[v].res
              /\ cache'[v] = cache[v]]_vars

\* a view has been called, then another view with the same references, then
\* the first view again with these references: it did not compute again
C30_Witness ==
  \E v \in Views : \E w \in Views \ {v} :
    /\ hist[v].n = 2 /\ hist[w].n = 1
    /\ hist[v].between /\ ~hist[w].between
    /\ hist[v].args = hist[v].prevArgs
    /\ hist[w].args = hist[v].args
    /\ hist[w].ran /\ ~hist[v].ran
    /\ hist[v].runs = 1

----------------------------------------------------------------------------
(* Properties of the subject comparison (SpecCompare)                       *)

\* the positions of the students that hold a number in both compared subjects
GradedInBoth ==
  {k \in 1..Len(heap[1]) : /\ stats.compareSubject1 \in DOMAIN heap[1][k].grades
                           /\ stats.compareSubject2 \in DOMAIN heap[1][k].grades}

\* C24: the two series handed to calculateCorrelation have the same length,
\* the number of students graded in both compared subjects; position i of
\* both series holds the two grades of the i-th of these students, in the
\* order of the student array; no other student contributes.
C24_SeriesAreAlignedPairs ==
  (stats.fn = "comparisonData" /\ ~stats.isNull) =>
    /\ Len(xs) = Len(ys)
    /\ Len(xs) = Cardinality(GradedInBoth)
    /\ \A i \in 1..Len(xs) :
         \E k \in GradedInBoth :
           /\ Cardinality({j \in GradedInBoth : j <= k}) = i
           /\ xs[i] = GradeNumber[heap[1][k].grades[stats.compareSubject1]]
           /\ ys[i] = GradeNumber[heap[1][k].grades[stats.compareSubject2]]

\* two different subjects are compared over two students: the first lacks a
\* grade in the second subject, and the series hold the two grades of the
\* second student only
C24_Witness ==
  /\ stats.fn = "comparisonData" /\ ~stats.isNull
  /\ stats.compareSubject1 = Math /\ stats.compareSubject2 = Rasm
  /\ Len(heap[1]) = 2
  /\ Math \in DOMAIN heap[1][1].grades
  /\ Rasm \notin DOMAIN heap[1][1].grades
  /\ GradedInBoth = {2}
  /\ xs = <<GradeNumber[1100]>> /\ ys = <<GradeNumber[1098]>>

\* the first student is graded in the first subject only and the second in
\* the second subject only: both series are empty
C24_WitnessNoPair ==
  /\ stats.fn = "comparisonData" /\ ~stats.isNull
  /\ stats.compareSubject1 = Math /\ stats.compareSubject2 = Rasm
  /\ Len(heap[1]) = 2
  /\ Rasm \notin DOMAIN heap[1][1].grades
  /\ Math \notin DOMAIN heap[1][2].grades
  /\ xs = <<>> /\ ys = <<>>

----------------------------------------------------------------------------
(* Properties of the upload page (SpecUpload)                               *)

\* what parseExcelFile gives for each of the sample files
ParsedSamples ==
  [file \in {FileA1, FileA2, FileB, FileC, FileE, FileH} |-> ParseExcelFile(file.grid)]

\* what parseExcelFile gives for the i-th file of a list
ParsedFile(files, i) == ParsedSamples[files[i]]

\* file k of the list parses, as the first one does, with another level or
\* another stream than the first one
DiffersFromFirst(files, k) ==
  /\ ParsedFile(files, 1).status = "resolved"
  /\ ParsedFile(files, k).status = "resolved"
  /\ \/ ParsedFile(files, k).metadata.level # ParsedFile(files, 1).metadata.level
     \/ ParsedFile(files, k).metadata.stream # ParsedFile(files, 1).metadata.stream

\* a multi-file call one of whose later files differs from the first
MismatchedJob(j) ==
  /\ jobs[j].mode = "multi"
  /\ \E k \in 2..Len(jobs[j].files) : DiffersFromFirst(jobs[j].files, k)

\* C1: a multi-file call of processFiles with a file after the first whose
\* level or stream differs from the first file's never sets a timer and never
\* calls onDataLoaded, and when it has ended it has ended with an error: no
\* data set of that call reaches the state of App
C1_MismatchAbortsBatch ==
  \A j \in 1..Len(jobs) :
    MismatchedJob(j) =>
      /\ jobs[j].delivered = 0
      /\ ~jobs[j].succeeded
      /\ jobs[j].out = NoDataset
      /\ \A k \in 1..Len(timers) : timers[k].job # j
      /\ jobs[j].pc = "done" => jobs[j].error # NoError

\* a call has ended on a mismatch of its third file, two files merged before
C1_Witness ==
  \E j \in 1..Len(jobs) :
    /\ MismatchedJob(j)
    /\ jobs[j].pc = "done"
    /\ jobs[j].acc.processedCount = 2
    /\ Len(jobs[j].acc.combinedStudents) > 0
    /\ jobs[j].error.text = ErrLevelMismatch

RECURSIVE KeptBefore(_, _)
\* the number of students of the files before the i-th one
KeptBefore(files, i) ==
  IF i <= 1 THEN 0
  ELSE KeptBefore(files, i - 1) + Len(ParsedFile(files, i - 1).students)

\* the id form f{i}-s{j}
CompositeId(i, j) == <<"f">> \o Digits(i) \o <<"-", "s">> \o Digits(j)

\* C2: the student sequence of a successful multi-file call holds as many
\* entries as its files yield together, their ids are pairwise distinct, and
\* the j-th student of file i (both counted from 0) is there with id f{i}-s{j}
C2_MergedIdsAreComposite ==
  \A j \in 1..Len(jobs) :
    (jobs[j].mode = "multi" /\ jobs[j].succeeded) =>
      LET files  == jobs[j].files
          merged == jobs[j].out.students
      IN  /\ Len(merged) = KeptBefore(files, Len(files) + 1)
          /\ \A a, b \in 1..Len(merged) : a # b => merged[a].id # merged[b].id
          /\ \A i \in 1..Len(files) : \A q \in 1..Len(ParsedFile(files, i).students) :
               /\ merged[KeptBefore(files, i) + q].id = CompositeId(i - 1, q - 1)
               /\ merged[KeptBefore(files, i) + q].name = ParsedFile(files, i).students[q].name

\* a merge of two files with students each has been handed to App
C2_Witness ==
  \E j \in 1..Len(jobs) :
    /\ jobs[j].mode = "multi"
    /\ jobs[j].succeeded
    /\ jobs[j].delivered = 1
    /\ Len(jobs[j].files) = 2
    /\ \A i \in 1..2 : Len(ParsedFile(jobs[j].files, i).students) > 0
    /\ Len(heap[app.students]) = Len(jobs[j].out.students)

\* job.idx is the 0-based index of the file whose bytes are being read
\* (pc = "reading"); the files before it have been read.
\* C17: a multi-file call reads its files in list order, one at a time: the
\* read of the next file starts only in the step in which the current file
\* has been read, parsed and found of the first file's level and stream, and
\* once a file has failed (read, parse or check) the call reads no other file.
C17_FilesReadInOrder ==
  [][\A j \in 1..Len(jobs) :
       LET old  == jobs[j]
           new  == jobs'[j]
           read == ParsedFile(old.files, old.idx + 1)
       IN  /\ new.idx \in {old.idx, old.idx + 1}
           /\ (old.mode = "multi" /\ new.idx = old.idx + 1) =>
                 /\ old.pc = "reading"
                 /\ read.status = "resolved"
                 /\ read.metadata.level = ParsedFile(old.files, 1).metadata.level
                 /\ read.metadata.stream = ParsedFile(old.files, 1).metadata.stream
                 /\ new.acc.processedCount = new.idx
           /\ (new.pc = "reading") => (new.idx < Len(new.files) /\ new.error = NoError)
           /\ (old.pc = "done") => (new.pc = "done" /\ new.idx = old.idx)
           /\ (old.pc = "reading" /\ new.pc = "done" /\ ~new.succeeded) => new.idx = old.idx
    ]_vars

\* a call with three files has failed on its second file after merging the
\* first one: the third file is never read
C17_Witness ==
  \E j \in 1..Len(jobs) :
    /\ jobs[j].mode = "multi"
    /\ Len(jobs[j].files) = 3
    /\ jobs[j].pc = "done"
    /\ ~jobs[j].succeeded
    /\ jobs[j].idx = 1
    /\ jobs[j].acc.processedCount = 1

RECURSIVE StudentsOfFiles(_)
\* the students parseExcelFile gives for the files, one file after the other
StudentsOfFiles(files) ==
  IF Len(files) = 0 THEN <<>>
  ELSE ParsedFile(files, 1).students \o StudentsOfFiles(Tail(files))

\* a student without the two fields the merge rewrites
Unlabelled(students) ==
  [i \in 1..Len(students) |-> [students[i] EXCEPT !.id = <<>>, !.sourceClass = <<>>]]

\* C18: a successful multi-file call delivers the students of its files in
\* file order, the first file's active subjects, and the first file's
\* metadata with isAggregated true, classNumber the "all classes" marker and
\* className made of the first file's level and stream and the aggregation
\* marker; a single-file call never sets isAggregated.
C18_MergedDatasetFollowsFirstFile ==
  \A j \in 1..Len(jobs) :
    jobs[j].succeeded =>
      LET first == ParsedFile(jobs[j].files, 1)
          out   == jobs[j].out
      IN  IF jobs[j].mode = "single" THEN out.metadata.isAggregated # "true"
          ELSE /\ Unlabelled(out.students) = Unlabelled(StudentsOfFiles(jobs[j].files))
               /\ out.subjects = first.subjects
               /\ out.metadata.isAggregated = "true"
               /\ out.metadata.classNumber = AllClasses
               /\ out.metadata.className =
                    first.metadata.level \o <<" ">> \o first.metadata.stream
                      \o <<" ">> \o AggregationMarker
               /\ \A field \in DOMAIN first.metadata \ {"isAggregated", "classNumber", "className"} :
                    out.metadata[field] = first.metadata[field]

\* a merge of two files has been delivered whose second file has a subject
\* the first file lacks, and a single file has been delivered as well
C18_Witness ==
  /\ \E j \in 1..Len(jobs) :
       /\ jobs[j].mode = "multi" /\ jobs[j].succeeded /\ jobs[j].delivered = 1
       /\ Len(jobs[j].files) = 2
       /\ ParsedFile(jobs[j].files, 2).subjects # ParsedFile(jobs[j].files, 1).subjects
       /\ Len(ParsedFile(jobs[j].files, 2).students) > 0
  /\ \E j \in 1..Len(jobs) : jobs[j].mode = "single" /\ jobs[j].succeeded

\* the subjects of a list, as a set
SubjectSet(subjects) == {subjects[i] : i \in 1..Len(subjects)}

\* C11 (as claimed): in every data set a call of processFiles hands to
\* onDataLoaded, the keys of each student's grades are among the delivered
\* subjects
C11_GradeKeysAreDeliveredSubjects ==
  \A j \in 1..Len(jobs) :
    jobs[j].succeeded =>
      \A k \in 1..Len(jobs[j].out.students) :
        DOMAIN jobs[j].out.students[k].grades \subseteq SubjectSet(jobs[j].out.subjects)

\* `student-${i}` spelled out
PlainId(i) == <<"s", "t", "u", "d", "e", "n", "t", "-">> \o Digits(i)

\* C28: a call in single-file mode with more than one file ends with the
\* single-mode error without having read a file, sets no timer and never
\* calls onDataLoaded; a successful call in single-file mode has exactly one
\* file and hands over the students parsed from it, in their order, with the
\* ids student-0 .. student-(n-1), pairwise distinct.
C28_SingleModeTakesOneFile ==
  \A j \in 1..Len(jobs) :
    jobs[j].mode = "single" =>
      /\ Len(jobs[j].files) > 1 =>
           /\ jobs[j].pc = "done" /\ jobs[j].idx = 0
           /\ ~jobs[j].succeeded /\ jobs[j].error = PlainError(ErrSingleMode)
           /\ jobs[j].delivered = 0
           /\ \A k \in 1..Len(timers) : timers[k].job # j
      /\ jobs[j].succeeded =>
           LET given  == jobs[j].out.students
               parsed1 == ParsedFile(jobs[j].files, 1).students
           IN  /\ Len(jobs[j].files) = 1
               /\ Len(given) = Len(parsed1)
               /\ \A i \in 1..Len(given) :
                    /\ given[i].id = PlainId(i - 1)
                    /\ given[i].name = parsed1[i].name
                    /\ given[i].grades = parsed1[i].grades
               /\ \A a, b \in 1..Len(given) : a # b => given[a].id # given[b].id

\* a call with several files has been refused in single-file mode, and a call
\* with one file of two students has handed them to App
C28_Witness ==
  /\ \E j \in 1..Len(jobs) :
       jobs[j].mode = "single" /\ Len(jobs[j].files) > 1 /\ jobs[j].pc = "done"
  /\ \E j \in 1..Len(jobs) :
       /\ jobs[j].mode = "single" /\ jobs[j].succeeded /\ jobs[j].delivered = 1
       /\ Len(jobs[j].out.students) = 2
       /\ heap[app.students][2].id = PlainId(1)

\* the calls of processFiles that have set their timer, by their positions in
\* the order the calls were started
SucceededJobs == {j \in 1..Len(jobs) : jobs[j].succeeded}

\* what the application holds
HeldDataset == Dataset(heap[app.students], heap[app.subjects], app.metadata)

\* no read and no timer is pending, and a data set has been handed over
\* since the last reset
Quiescent ==
  /\ timers = <<>>
  /\ \A j \in 1..Len(jobs) : jobs[j].pc = "done"
  /\ SucceededJobs # {}
  /\ app.hasMetadata

\* C29 (as claimed): every call of processFiles calls onDataLoaded at most
\* once, and once no read and no timer is pending the application holds the
\* data set of the call started last (among the calls that had one to hand
\* over)
C29_LastStartedWins ==
  /\ \A j \in 1..Len(jobs) : jobs[j].delivered <= 1
  /\ Quiescent =>
       \A last \in SucceededJobs :
         (\A j \in SucceededJobs : j <= last) => HeldDataset = jobs[last].out

\* C29, first part: a call of processFiles calls onDataLoaded at most once,
\* and not at all unless it has set its timer
C29_DeliversAtMostOnce ==
  \A j \in 1..Len(jobs) :
    /\ jobs[j].delivered <= 1
    /\ jobs[j].delivered = 1 => jobs[j].succeeded
    /\ jobs[j].delivered + Cardinality({k \in 1..Len(timers) : timers[k].job = j})
         = IF jobs[j].succeeded THEN 1 ELSE 0

\* C29, second part as the code has it: once no read and no timer is
\* pending, the application holds the data set of one of the calls that set a
\* timer, which need not be the call started last
C29_HoldsSomeDeliveredDataset ==
  Quiescent => \E j \in SucceededJobs : HeldDataset = jobs[j].out

\* two calls have handed over different data sets and the application holds
\* that of the call started first
C29_FirstStartedWon ==
  /\ Quiescent
  /\ Len(jobs) = 2 /\ SucceededJobs = {1, 2}
  /\ jobs[1].out # jobs[2].out
  /\ HeldDataset = jobs[1].out

----------------------------------------------------------------------------
(* Properties of the application (Spec)                                     *)

\* C5: after every operation of the application, what each view called by
\* the render returned is what its computation gives on the current
\* students, subjects and optional subjects, and every cached result is what
\* the computation gives on the arrays it was cached for
C5_CacheNeverStale ==
  \A v \in Views :
    /\ shown[v].on => shown[v].val = Compute(v, ViewArgs(v, app), heap)
    /\ cache[v].hasArgs => cache[v].lastResult.val = Compute(v, cache[v].lastArgs, heap)

\* the optional subjects have been toggled and the view over them has
\* answered the render from its cache
C5_Witness ==
  /\ shown["getOptionalSubjectsStats"].on
  /\ ~shown["getOptionalSubjectsStats"].ran
  /\ heap[app.optionalSubjects] # DetectedOptional(heap[app.subjects])
  /\ Len(heap[app.optionalSubjects]) > 0

----------------------------------------------------------------------------
(* Properties of loads and toggles (SpecSelection)                          *)

\* subj.includes(keyword) for one of the keywords of optional subjects
NamesOptional(subj) ==
  \E kw \in OptionalKeywords :
    \E i \in 0..(Len(subj) - Len(kw)) : SubSeq(subj, i + 1, i + Len(kw)) = kw

\* the elements of an array
Elements(array) == {array[i] : i \in 1..Len(array)}

\* C21: a step that loads a data set leaves in the state exactly the
\* students, subjects and metadata of one deliverable data set, in arrays no
\* earlier state held, and a selection of optional subjects that is a new
\* array holding the loaded subjects that name an optional subject, in their
\* order, whatever the selection was before; no earlier array is changed
C21_LoadReplacesDataset ==
  [][(app'.students # app.students /\ app'.activeTab = "students") =>
       LET subj == heap'[app'.subjects]
           opt  == heap'[app'.optionalSubjects]
           kept == {i \in 1..Len(subj) : NamesOptional(subj[i])}
       IN  /\ \E d \in Deliverable : /\ heap'[app'.students] = d.students
                                     /\ subj = d.subjects
                                     /\ app'.metadata = d.metadata
           /\ app'.hasMetadata
           /\ {app'.students, app'.subjects, app'.optionalSubjects} \cap DOMAIN heap = {}
           /\ Len(opt) = Cardinality(kept)
           /\ \A n \in 1..Len(opt) :
                 \E i \in kept : opt[n] = subj[i] /\ Cardinality({k \in kept : k <= i}) = n
           /\ \A r \in DOMAIN heap : heap'[r] = heap[r]]_vars

\* a data set with the subject Math has just been loaded over a selection
\* Math had been toggled into (the array made just before those of the load),
\* and the selection no longer holds it
C21_Witness ==
  /\ app.optionalSubjects = app.students + 2
  /\ app.optionalSubjects = Cardinality(DOMAIN heap)
  /\ app.students > 4
  /\ Math \in Elements(heap[app.students - 1])
  /\ Math \in Elements(heap[app.subjects])
  /\ Math \notin Elements(heap[app.optionalSubjects])

============================================================================
